---- MODULE Spec2Model ----
(***************************************************************************)
(* Model of the transition verification harness of solid-transition-group: *)
(*   - TaskManager            (src/test/utils/TaskManager.ts)              *)
(*   - trackDOMContentChanges (src/test/test-utils/DOMContentTracker.ts)   *)
(*   - ComponentTransitionAnalyser (src/unnamed/part_004)                  *)
(* The platform (requestAnimationFrame, setTimeout, the microtask queue,   *)
(* transitionend events) is modelled as the event loop that drives them.   *)
(***************************************************************************)
EXTENDS Integers, Sequences, FiniteSets, TLC

(* ---------------------------------------------------------------- bounds *)

\* Number of task ids the scheduler may issue in one behaviour.
MaxTasks == 3

\* Number of getContent evaluations one tracker may make in one behaviour.
MaxPolls == 3

\* Number of triggers that may be queued on the analyser.
MaxTriggers == 2

\* Number of display frames an analysis is followed for.
MaxFrames == 8

\* Number of times the transition library rewrites the container on its own.
MaxMutations == 1

\* Number of snapshots a captured list may hold when the report is studied alone.
MaxSnapshots == 6

\* nesting depth of the markup given to the formatter alone
MaxDepth == 2

(* ------------------------------------------------------------- variables *)

VARIABLES
  nextTaskId,     \* TaskManager.nextTaskId
  taskKillers,    \* TaskManager.taskKillers : taskId -> [api, h] (the cancel closure)
  nextRafHandle,  \* platform: next handle requestAnimationFrame returns
  nextTimerHandle,\* platform: next handle setTimeout returns
  rafPending,     \* platform: frame callbacks requested for the next frame, in order
  frameBatch,     \* platform: callbacks of the frame now running, not yet run
  timers,         \* platform: pending setTimeout callbacks
  issued,         \* history: ids returned by getNextTaskId, in order
  consoleErrors,  \* diagnostic sink: number of console.error calls
  uncaught,       \* exceptions that escaped executeTask to the platform
  spy,            \* test spies: per user callback, how it was scheduled and called
  trk,            \* per tracker closure: taskId, lastContentValue, stopTracking
  trkLog,         \* per tracker: values getContent returned, values delivered, untrack calls
  transitonTriggers,  \* ComponentTransitionAnalyser.transitonTriggers
  chained,        \* what the last addTransitionTrigger / expectFollowUpTransition returned
  capturedSnapshots,  \* ComponentTransitionAnalyser.capturedSnapshots
  analysis,       \* position of analyseTransitionActivity()
  outcome,        \* how the promise of analyseTransitionActivity() settled
  closures,       \* position of each async reduce callback, and the events it awaits
  microtasks,     \* promise reactions queued, run before any other callback
  innerHTML,      \* transitionContainer.innerHTML
  frameNo,        \* frames started since the analysis began (the clock, in frames)
  mutations,      \* rewrites of the container by the transition library so far
  dispatched,     \* target of the last transitionend event dispatched
  execLog         \* history: triggers whose execute was invoked, in order

tmVars == <<nextTaskId, taskKillers, nextRafHandle, nextTimerHandle, rafPending, frameBatch, timers,
            issued, consoleErrors, uncaught>>
trackerVars == <<trk, trkLog>>
analyserVars == <<transitonTriggers, chained, capturedSnapshots, analysis, outcome, closures,
                  microtasks, execLog>>
domVars == <<innerHTML, frameNo, mutations, dispatched>>
vars == <<tmVars, spy, trackerVars, analyserVars, domVars>>

(* ------------------------------------------------------------- callbacks *)

\* A callback handed to the scheduler. wrap = TRUE is the closure
\* () => this.scheduleAnimationFrame(callback) of scheduleAnimationFrameAfterNext.
UserCallback(k, throws) == [type |-> "user", arg |-> k, throws |-> throws, wrap |-> FALSE]
Wrap(cb) == [cb EXCEPT !.wrap = TRUE]
Unwrap(cb) == [cb EXCEPT !.wrap = FALSE]

(* ------------------------------------------------- scheduler as functions *)

\* The scheduler and platform state as one record, so that the operations
\* compose the way the methods call each other.
Cur == [nextTaskId |-> nextTaskId, taskKillers |-> taskKillers,
        nextRafHandle |-> nextRafHandle, nextTimerHandle |-> nextTimerHandle,
        rafPending |-> rafPending,
        frameBatch |-> frameBatch, timers |-> timers, issued |-> issued,
        consoleErrors |-> consoleErrors, uncaught |-> uncaught]

Commit(S) ==
  /\ nextTaskId' = S.nextTaskId
  /\ taskKillers' = S.taskKillers
  /\ nextRafHandle' = S.nextRafHandle
  /\ nextTimerHandle' = S.nextTimerHandle
  /\ rafPending' = S.rafPending
  /\ frameBatch' = S.frameBatch
  /\ timers' = S.timers
  /\ issued' = S.issued
  /\ consoleErrors' = S.consoleErrors
  /\ uncaught' = S.uncaught

\* requestAnimationFrame(() => executeTask(cb, taskId)): returns S.nextRafHandle
RequestAnimationFrame(S, taskId, cb) ==
  [S EXCEPT !.rafPending = Append(@, [h |-> S.nextRafHandle, task |-> taskId, cb |-> cb]),
            !.nextRafHandle = @ + 1]

\* setTimeout(() => executeTask(cb, taskId), delay): returns S.nextTimerHandle
SetTimeout(S, taskId, cb) ==
  [S EXCEPT !.timers = @ \cup {[h |-> S.nextTimerHandle, task |-> taskId, cb |-> cb]},
            !.nextTimerHandle = @ + 1]

\* cancelAnimationFrame(h): the callback is dropped from the list of callbacks,
\* also when the frame that would run it has already started.
CancelAnimationFrame(S, h) ==
  LET Keep(r) == r.h # h
  IN  [S EXCEPT !.rafPending = SelectSeq(@, Keep), !.frameBatch = SelectSeq(@, Keep)]

ClearTimeout(S, h) == [S EXCEPT !.timers = {r \in @ : r.h # h}]

\* faulty variant: the smallest id not in the registry is handed out again
GetNextTaskId_Reuse(S) ==
  [id |-> CHOOSE n \in 1..(Cardinality(DOMAIN S.taskKillers) + 1) : n \notin DOMAIN S.taskKillers,
   S |-> S]

\* this.nextTaskId++
GetNextTaskId(S) == [id |-> S.nextTaskId, S |-> [S EXCEPT !.nextTaskId = @ + 1]]

\* Map.set / Map.delete on taskKillers
EmptyMap == [x \in {} |-> 0]
MapSet(m, k, v) == [x \in DOMAIN m \cup {k} |-> IF x = k THEN v ELSE m[x]]
MapDelete(m, k) == [x \in DOMAIN m \ {k} |-> m[x]]

\* createTask(schedule, cancel); the id returned to the caller is S.nextTaskId
CreateTask(S, api, cb) ==
  LET g == GetNextTaskId(S)
      taskId == g.id
      S1 == [g.S EXCEPT !.issued = Append(@, taskId)]
      id == IF api = "raf" THEN S1.nextRafHandle ELSE S1.nextTimerHandle
      S2 == IF api = "raf" THEN RequestAnimationFrame(S1, taskId, cb)
                           ELSE SetTimeout(S1, taskId, cb)
  IN  [S2 EXCEPT !.taskKillers = MapSet(@, taskId, [api |-> api, h |-> id])]

ScheduleAnimationFrame(S, cb) == CreateTask(S, "raf", cb)

ScheduleTimeout(S, cb) == CreateTask(S, "timer", cb)

\* faulty variant: the callback is requested for the next frame directly
ScheduleAnimationFrameAfterNext_OneFrame(S, cb) == ScheduleAnimationFrame(S, cb)

\* faulty variant: the second frame is requested for nothing, the callback is lost
ScheduleAnimationFrameAfterNext_Lost(S, cb) == S

ScheduleAnimationFrameAfterNext(S, cb) == ScheduleAnimationFrame(S, Wrap(cb))

\* the cancel closure () => cancel(id) stored in taskKillers
Kill(S, killer) ==
  IF killer.api = "raf" THEN CancelAnimationFrame(S, killer.h) ELSE ClearTimeout(S, killer.h)

\* faulty variant: the platform request is cancelled, the registry entry stays
CancelTask_KillOnly(S, id) ==
  IF id \in DOMAIN S.taskKillers THEN Kill(S, S.taskKillers[id]) ELSE S

\* faulty variant: the task id is handed to the platform's cancel functions as a handle
CancelTask_ByHandle(S, id) ==
  [ClearTimeout(CancelAnimationFrame(S, id), id) EXCEPT !.taskKillers = MapDelete(@, id)]

CancelTask(S, id) ==
  LET S1 == IF id \in DOMAIN S.taskKillers THEN Kill(S, S.taskKillers[id]) ELSE S
  IN  [S1 EXCEPT !.taskKillers = MapDelete(@, id)]

RECURSIVE KillAll(_, _)
KillAll(S, ids) ==
  IF ids = {} THEN S
  ELSE LET id == CHOOSE x \in ids : \A y \in ids : x <= y
       IN  KillAll(Kill(S, S.taskKillers[id]), ids \ {id})

\* faulty variant: the registry is cleared without calling the cancel closures
CancelAllTasks_ClearOnly(S) == [S EXCEPT !.taskKillers = EmptyMap]

CancelAllTasks(S) ==
  [KillAll(S, DOMAIN S.taskKillers) EXCEPT !.taskKillers = EmptyMap]

CleanupTask(S, taskId) == [S EXCEPT !.taskKillers = MapDelete(@, taskId)]

\* faulty variant: cleanup in the try block instead of finally, so a throw skips it
ExecuteTask_NoFinally(S, taskId, threw) ==
  IF threw THEN [S EXCEPT !.consoleErrors = @ + 1] ELSE CleanupTask(S, taskId)

\* executeTask(callback, taskId): S is the state the callback body left behind,
\* threw tells whether the body threw.
ExecuteTask(S, taskId, threw) ==
  LET S1 == IF threw THEN [S EXCEPT !.consoleErrors = @ + 1] ELSE S
  IN  CleanupTask(S1, taskId)

RunningTasks(S) == Cardinality(DOMAIN S.taskKillers)

(* ------------------------------------------------------ observation (spies) *)

AllRequests(S) ==
  {S.rafPending[i] : i \in DOMAIN S.rafPending}
    \cup {S.frameBatch[i] : i \in DOMAIN S.frameBatch} \cup S.timers

\* user callbacks that some pending platform request will still invoke
PendingUsers(S) == {r.cb.arg : r \in {q \in AllRequests(S) : q.cb.type = "user"}}

\* user callbacks still behind the first frame of scheduleAnimationFrameAfterNext
PendingWrapped(S) == {r.cb.arg : r \in {q \in AllRequests(S) : q.cb.type = "user" /\ q.cb.wrap}}

\* ids that pending wrap closures will still draw when they fire
Reserved(S) == Cardinality({r \in AllRequests(S) : r.cb.wrap})

NewSpy(kind) ==
  [kind |-> kind, calls |-> 0, frames |-> 0,
   cancelled |-> FALSE, killedAt |-> "none", swept |-> FALSE]

\* spies after a cancel operation took S to T; byId: cancelTask(id), all: cancelAllTasks
SpyAfterCancel(S, T, byId, all) ==
  [k \in DOMAIN spy |->
     [spy[k] EXCEPT
        !.cancelled = @ \/ (k \in byId /\ spy[k].calls = 0),
        !.swept = @ \/ (all /\ spy[k].calls = 0),
        !.killedAt = IF k \in PendingUsers(S) /\ k \notin PendingUsers(T)
                       THEN (IF k \in PendingWrapped(S) THEN "first" ELSE "last")
                       ELSE @]]

(* ------------------------------------------------------- content tracker *)

\* trackers started by a test, with spies for getContent and onContentChange
Trackers == {"A", "B"}

\* the tracker the analyser starts on its container
DomTracker == "dom"

AllTrackers == Trackers \cup {DomTracker}

\* The value of a variable declared and not yet assigned (let taskId; let
\* lastContentValue), which is also a value getContent may return.
Undefined == "undefined"

\* what getContent may return
Contents == {Undefined, "x", "y"}

\* no closure yet / the closure as trackDOMContentChanges creates it
NoTracker ==
  [started |-> FALSE, taskId |-> 0, lastContentValue |-> Undefined, stopTracking |-> FALSE]
NewTracker == [NoTracker EXCEPT !.started = TRUE]

\* what the spies of a tracker saw; the analyser's callbacks are no spies
NoLog == [spied |-> TRUE, evals |-> <<>>, delivered |-> <<>>, untracked |-> FALSE]
NoSpyLog == [NoLog EXCEPT !.spied = FALSE]

PollCallback(t) == [type |-> "poll", arg |-> t, throws |-> FALSE, wrap |-> FALSE]

\* faulty variant: untrack() leaves the tracker running
Untrack_Ignored(W) == W

\* faulty variant: untrack() cancels every task of the scheduler
Untrack_CancelsAll(W) ==
  [W EXCEPT !.S = CancelAllTasks(W.S),
            !.trk.stopTracking = TRUE,
            !.log.untracked = TRUE]

\* untrack(): stopTracking = true; TaskManager.cancelTask(taskId).
\* W = [S: scheduler, trk: the closure's variables, log: its observation].
Untrack(W) ==
  [W EXCEPT !.S = CancelTask(W.S, W.trk.taskId),
            !.trk.stopTracking = TRUE,
            !.log.untracked = TRUE]

\* lastContentValue !== currentContent
Differs(last, current) == last # current

\* faulty variant: the next poll is scheduled only when the content changed
NotifyIfContentChange_OnChangeOnly(W, t, v, untracks) ==
  IF W.trk.stopTracking \/ ~Differs(W.trk.lastContentValue, v) THEN W
  ELSE
    LET W2a == [W EXCEPT !.trk.lastContentValue = v, !.out = Append(@, v)]
        W2 == IF untracks THEN Untrack(W2a) ELSE W2a
        newId == GetNextTaskId(W2.S).id
    IN  [W2 EXCEPT !.S = ScheduleAnimationFrame(W2.S, PollCallback(t)),
                   !.trk.taskId = newId]

\* faulty variant: every call requests two frame callbacks
NotifyIfContentChange_TwoPolls(W, t, v, untracks) ==
  IF W.trk.stopTracking THEN W
  ELSE
    LET W1 == [W EXCEPT !.log.evals = IF W.log.spied THEN Append(@, v) ELSE @]
        W2 == IF Differs(W1.trk.lastContentValue, v)
                THEN [W1 EXCEPT !.trk.lastContentValue = v,
                                !.out = Append(@, v),
                                !.log.delivered = IF W.log.spied THEN Append(@, v) ELSE @]
                ELSE W1
        S1 == ScheduleAnimationFrame(W2.S, PollCallback(t))
        newId == GetNextTaskId(S1).id
    IN  [W2 EXCEPT !.S = ScheduleAnimationFrame(S1, PollCallback(t)),
                   !.trk.taskId = newId]

\* notifyIfContentChange(), getContent returning v; untracks tells whether
\* onContentChange, when invoked, calls untrack(). W.out collects the values
\* handed to onContentChange.
NotifyIfContentChange(W, t, v, untracks) ==
  IF W.trk.stopTracking THEN W
  ELSE
    LET W1 == [W EXCEPT !.log.evals = IF W.log.spied THEN Append(@, v) ELSE @]
        W2 == IF Differs(W1.trk.lastContentValue, v)
                THEN LET W2a == [W1 EXCEPT !.trk.lastContentValue = v,
                                           !.out = Append(@, v),
                                           !.log.delivered =
                                              IF W.log.spied THEN Append(@, v) ELSE @]
                     IN  IF untracks THEN Untrack(W2a) ELSE W2a
                ELSE W1
        newId == GetNextTaskId(W2.S).id
    IN  [W2 EXCEPT !.S = ScheduleAnimationFrame(W2.S, PollCallback(t)),
                   !.trk.taskId = newId]

TrackerWorld(S, t) == [S |-> S, trk |-> trk[t], log |-> trkLog[t], out |-> <<>>]

CommitTracker(W, t) ==
  /\ Commit(W.S)
  /\ trk' = [trk EXCEPT ![t] = W.trk]
  /\ trkLog' = [trkLog EXCEPT ![t] = W.log]

(* ------------------------------------------------ the transition container *)

\* elements below the container: "inner" is a child of "outer"
Elements == {"outer", "inner"}
Ancestors(e) == IF e = "inner" THEN {"outer"} ELSE {}

\* Serialized markup the container may show: an element at rest, without and
\* with white space around its text, and a transitioning element inside a
\* transitioning element.
Markup ==
  {"<p>x</p>", "<p> x </p>",
   "<div class=\"duration-75 exit-active\"><p class=\"duration-75 enter-active\">x</p></div>"}

\* formatHTML(html): every token is trimmed and put on a line of its own,
\* indented two spaces per depth, attributes one per line, so markup that
\* differs only in the white space around a text node formats to the same
\* string.
FormatHTML(html) ==
  CASE html \in {"<p>x</p>", "<p> x </p>"} -> "<p>\n  x\n</p>"
    [] html = "<p class=\"duration-75 move-active\">x</p>"
         -> "<p\n  class=\"duration-75 move-active\"\n>\n  x\n</p>"
    [] html = "<div class=\"duration-75 move-active\"><p class=\"duration-75 enter-active\">x</p></div>"
         -> "<div\n  class=\"duration-75 move-active\"\n>\n  <p\n    class=\"duration-75 enter-active\"\n  >\n    x\n  </p>\n</div>"
    [] OTHER
         -> "<div\n  class=\"duration-75 exit-active\"\n>\n  <p\n    class=\"duration-75 enter-active\"\n  >\n    x\n  </p>\n</div>"

(* formatHTML computed character by character *)

\* the character of s at position i, counted from 1
CharAt(s, i) == SubSeq(s, i, i)

\* the white space String.prototype.trim() removes, as far as markup has it
WhiteSpace == {" ", "\n", "\t"}

\* \w of a regular expression
WordChars ==
  {"a", "b", "c", "d", "e", "f", "g", "h", "i", "j", "k", "l", "m", "n", "o", "p", "q", "r",
   "s", "t", "u", "v", "w", "x", "y", "z", "A", "B", "C", "D", "E", "F", "G", "H", "I", "J",
   "K", "L", "M", "N", "O", "P", "Q", "R", "S", "T", "U", "V", "W", "X", "Y", "Z", "0", "1",
   "2", "3", "4", "5", "6", "7", "8", "9", "_"}

\* [\w-] of tokenizeAttributes
NameChars == WordChars \cup {"-"}

\* ["'] of tokenizeAttributes
Quotes == {"\"", "'"}

RECURSIVE FirstIn(_, _, _)
\* the first position from i on whose character is in chars, Len(s) + 1 if none
FirstIn(s, i, chars) ==
  IF i > Len(s) \/ CharAt(s, i) \in chars THEN i ELSE FirstIn(s, i + 1, chars)

RECURSIVE FirstNotIn(_, _, _)
\* the first position from i on whose character is not in chars, Len(s) + 1 if none
FirstNotIn(s, i, chars) ==
  IF i > Len(s) \/ CharAt(s, i) \notin chars THEN i ELSE FirstNotIn(s, i + 1, chars)

RECURSIVE LastNotIn(_, _, _)
\* the last position up to i whose character is not in chars, 0 if none
LastNotIn(s, i, chars) ==
  IF i = 0 \/ CharAt(s, i) \notin chars THEN i ELSE LastNotIn(s, i - 1, chars)

\* String.prototype.trim()
Trim(s) == SubSeq(s, FirstNotIn(s, 1, WhiteSpace), LastNotIn(s, Len(s), WhiteSpace))

StartsWith(s, prefix) == Len(s) >= Len(prefix) /\ SubSeq(s, 1, Len(prefix)) = prefix
EndsWith(s, suffix) ==
  Len(s) >= Len(suffix) /\ SubSeq(s, Len(s) - Len(suffix) + 1, Len(s)) = suffix

\* const INDENTATION = "  "
INDENTATION == "  "

RECURSIVE Repeat(_, _)
\* String.prototype.repeat(count)
Repeat(s, count) == IF count <= 0 THEN "" ELSE s \o Repeat(s, count - 1)

\* createToken(content): the first token rule that matches gives the type
CreateToken(content) ==
  [content |-> content,
   type |-> IF StartsWith(content, "</") THEN "CloseTag"
            ELSE IF EndsWith(content, "/>") THEN "SelfClosingTag"
            ELSE IF StartsWith(content, "<") THEN "OpenTag"
            ELSE "Text"]

RECURSIVE TokensFrom(_, _)
\* the matches of /<\/?[^>]+>|[^<>]+/g in html from position i on, trimmed: a
\* tag runs from "<" to the first ">" at least one character later, text is a
\* longest run without "<" and ">", a character that starts neither is skipped
TokensFrom(html, i) ==
  IF i > Len(html) THEN <<>>
  ELSE IF CharAt(html, i) = "<"
    THEN LET close == FirstIn(html, i + 1, {">"})
         IN  IF close <= Len(html) /\ close >= i + 2
               THEN <<CreateToken(Trim(SubSeq(html, i, close)))>> \o TokensFrom(html, close + 1)
               ELSE TokensFrom(html, i + 1)
  ELSE IF CharAt(html, i) = ">" THEN TokensFrom(html, i + 1)
  ELSE LET stop == FirstIn(html, i, {"<", ">"})
       IN  <<CreateToken(Trim(SubSeq(html, i, stop - 1)))>> \o TokensFrom(html, stop)

\* tokenizeHTML(html)
TokenizeHTML(html) == TokensFrom(html, 1)

RECURSIVE AttributesFrom(_, _)
\* the matches of /([\w-]+)(?:=["']?([^"']*)["'])?/g in attributes from
\* position i on, each printed as name or name="value"; an empty value is
\* dropped with its quotes
AttributesFrom(attributes, i) ==
  LET start == FirstIn(attributes, i, NameChars)
      stop == FirstNotIn(attributes, start, NameChars)
      attrName == SubSeq(attributes, start, stop - 1)
      assigned == stop <= Len(attributes) /\ CharAt(attributes, stop) = "="
      opened == assigned /\ stop + 1 <= Len(attributes) /\ CharAt(attributes, stop + 1) \in Quotes
      from == IF opened THEN stop + 2 ELSE stop + 1
      quote == FirstIn(attributes, from, Quotes)
  IN  IF start > Len(attributes) THEN <<>>
      ELSE IF assigned /\ quote <= Len(attributes)
        THEN LET attrValue == SubSeq(attributes, from, quote - 1)
             IN  <<attrName \o (IF attrValue # "" THEN "=\"" \o attrValue \o "\"" ELSE "")>>
                   \o AttributesFrom(attributes, quote + 1)
      ELSE IF opened
        THEN <<attrName>> \o AttributesFrom(attributes, stop + 2)
      ELSE <<attrName>> \o AttributesFrom(attributes, stop)

\* tokenizeAttributes(attributes)
TokenizeAttributes(attributes) == AttributesFrom(attributes, 1)

RECURSIVE JoinLines(_)
\* Array.prototype.join("\n")
JoinLines(lines) ==
  IF lines = <<>> THEN ""
  ELSE IF Len(lines) = 1 THEN lines[1]
  ELSE lines[1] \o "\n" \o JoinLines(Tail(lines))

\* formatAttributes(attributes, depth)
FormatAttributes(attributes, depth) ==
  LET attributeTokens == TokenizeAttributes(attributes)
  IN  JoinLines([k \in DOMAIN attributeTokens |->
                   Repeat(INDENTATION, depth) \o attributeTokens[k]])

\* formatOpenTag(token, depth), for a tag that has a name
FormatOpenTag(token, depth) ==
  LET nameEnd == FirstNotIn(token.content, 2, WordChars)
      tagName == SubSeq(token.content, 1, nameEnd - 1)
      attributes == Trim(SubSeq(token.content, nameEnd, Len(token.content) - 1))
      formattedAttributes ==
        IF attributes = "" THEN ""
        ELSE "\n" \o FormatAttributes(attributes, depth + 1) \o "\n"
               \o Repeat(INDENTATION, depth)
  IN  Repeat(INDENTATION, depth) \o tagName \o formattedAttributes \o ">\n"

\* formatSimpleTag(token, depth)
FormatSimpleTag(token, depth) == Repeat(INDENTATION, depth) \o token.content \o "\n"

\* formatToken(token, depth)
FormatToken(token, depth) ==
  IF token.type = "OpenTag" THEN FormatOpenTag(token, depth) ELSE FormatSimpleTag(token, depth)

RECURSIVE FormatTokens(_, _, _)
\* tokens.forEach(...) of formatHTML from token k on, at the given depth
FormatTokens(tokens, k, depth) ==
  IF k > Len(tokens) THEN ""
  ELSE LET at == IF tokens[k].type = "CloseTag" THEN depth - 1 ELSE depth
           below == IF tokens[k].type = "OpenTag" THEN at + 1 ELSE at
       IN  FormatToken(tokens[k], at) \o FormatTokens(tokens, k + 1, below)

\* formatHTML(html), computed as the source computes it
FormatHTMLComputed(html) == Trim(FormatTokens(TokenizeHTML(html), 1, 0))

\* querySelectorAll('*[class*="duration"]') filtered by a non-zero computed
\* transition duration, on the container showing html
TransitioningElements(html) ==
  CASE html \in {"<p>x</p>", "<p> x </p>"} -> {}
    [] html = "<p class=\"duration-75 move-active\">x</p>" -> {"inner"}
    [] OTHER -> {"outer", "inner"}

\* markup of a list whose items move, alone or while another item enters
\* (moveClass of ListTransition)
MoveMarkup ==
  {"<p class=\"duration-75 move-active\">x</p>",
   "<div class=\"duration-75 move-active\"><p class=\"duration-75 enter-active\">x</p></div>"}

\* the class names written in html
ClassNames(html) ==
  CASE html \in {"<p>x</p>", "<p> x </p>"} -> {}
    [] html = "<p class=\"duration-75 move-active\">x</p>" -> {"duration-75", "move-active"}
    [] html = "<div class=\"duration-75 move-active\"><p class=\"duration-75 enter-active\">x</p></div>"
         -> {"duration-75", "move-active", "enter-active"}
    [] OTHER -> {"duration-75", "exit-active", "enter-active"}

(* ---------------------------------------------------------------- the report *)

TRANSITION_STAGES == 3

\* const fpsBuffer = 20
fpsBuffer == 20

\* A value that may be undefined: expectedDurations.shift() of an empty array.
Defined(v) == [defined |-> TRUE, value |-> v]
NoDuration == [defined |-> FALSE, value |-> 0]

\* faulty variant: the duration is taken from the end of the queue
Shift_Last(q) == IF q = <<>> THEN NoDuration ELSE Defined(q[Len(q)])

\* expectedDurations.shift(): the removed first element
Shift(q) == IF q = <<>> THEN NoDuration ELSE Defined(Head(q))

\* the array after shift()
Shifted(q) == IF q = <<>> THEN q ELSE Tail(q)

\* content.indexOf(marker) !== -1, for the formatted markup of the container
Includes(content, marker) ==
  \E h \in Markup \cup MoveMarkup : FormatHTML(h) = content /\ marker \in ClassNames(h)

\* Snapshot i of the source (counted from 0) is snaps[i + 1].
\* faulty variant: the marker is looked up in the snapshot before the boundary
SnapshotInEnterTransition_Previous(snaps, change) == Includes(snaps[change].content, "enter-active")

SnapshotInEnterTransition(snaps, change) == Includes(snaps[change + 1].content, "enter-active")
SnapshotInMoveTransition(snaps, change) == Includes(snaps[change + 1].content, "move-active")

DiffBetweenSnapshotRecordedAtTimesInMs(snaps, current, previous) ==
  snaps[current + 1].recordedAt - snaps[previous + 1].recordedAt

\* faulty variant: every diff is taken against the first snapshot
DiffBetweenSnapshots_AgainstFirst(snaps, current, previous) ==
  [previous |-> snaps[1].content, current |-> snaps[current + 1].content]

\* snapshotDiff(previous content, current content), kept as the application
DiffBetweenSnapshots(snaps, current, previous) ==
  [previous |-> snaps[previous + 1].content, current |-> snaps[current + 1].content]

\* faulty variant: the error counts transitions from 0
DurationError_ZeroBased(transitionIndex, expectedDuration) ==
  [name |-> "failedToTakeAtLeast", transitionIndex |-> transitionIndex - 1,
   expectedDuration |-> expectedDuration]

\* faulty variant: a boundary without expected duration is let through
TransitionTookDuration_UndefinedPasses(snaps, transtionEndIndex, transitionStartIndex, expectedDuration) ==
  LET actualDuration ==
        DiffBetweenSnapshotRecordedAtTimesInMs(snaps, transtionEndIndex, transitionStartIndex)
  IN  expectedDuration.defined =>
        /\ actualDuration >= expectedDuration.value - fpsBuffer
        /\ actualDuration <= expectedDuration.value * 2 + fpsBuffer

\* faulty variant: the window has no tolerance below the expected duration
TransitionTookDuration_NoBuffer(snaps, transtionEndIndex, transitionStartIndex, expectedDuration) ==
  LET actualDuration ==
        DiffBetweenSnapshotRecordedAtTimesInMs(snaps, transtionEndIndex, transitionStartIndex)
  IN  /\ expectedDuration.defined
      /\ actualDuration >= expectedDuration.value
      /\ actualDuration <= expectedDuration.value * 2 + fpsBuffer

\* actualDuration >= min && actualDuration <= max; with an undefined expected
\* duration min and max are NaN and both comparisons are false
TransitionTookDuration(snaps, transtionEndIndex, transitionStartIndex, expectedDuration) ==
  LET min == expectedDuration.value - fpsBuffer
      max == expectedDuration.value * 2 + fpsBuffer
      actualDuration ==
        DiffBetweenSnapshotRecordedAtTimesInMs(snaps, transtionEndIndex, transitionStartIndex)
  IN  /\ expectedDuration.defined
      /\ actualDuration >= min
      /\ actualDuration <= max

\* errors analyseTransitionActivity() may reject with
NoError == [name |-> "none", transitionIndex |-> 0, expectedDuration |-> NoDuration]
\* Error("Unable to find any transitioning elements at parent level")
NoTransitioningElementsError == [NoError EXCEPT !.name = "noTransitioningElements"]
\* Error(`Transition #${transitionIndex} failed to take at least ${expectedDuration}ms`)
DurationError(transitionIndex, expectedDuration) ==
  [name |-> "failedToTakeAtLeast", transitionIndex |-> transitionIndex,
   expectedDuration |-> expectedDuration]

\* faulty variant: the first transition is measured from the initial snapshot
ReportStart_FromInitialSnapshot(triggers) ==
  [formattedReport |-> <<>>, transitionStage |-> 1, transitionIndex |-> 1,
   transitionStartIndex |-> 0,
   expectedDurations |-> [k \in DOMAIN triggers |-> triggers[k].expectedDuration],
   asserted |-> <<>>, thrown |-> NoError]

\* the local variables of getTransitionActivityReport() before its loop;
\* asserted lists the calls of assertTransitionTookDuration made so far
ReportStart(triggers) ==
  [formattedReport |-> <<>>, transitionStage |-> 1, transitionIndex |-> 1,
   transitionStartIndex |-> 1,
   expectedDurations |-> [k \in DOMAIN triggers |-> triggers[k].expectedDuration],
   asserted |-> <<>>, thrown |-> NoError]

\* one "Render i:" block of the report
RenderBlock(i, boundary, expectedDuration, diff) ==
  [render |-> i, tookAtLeast |-> IF boundary THEN <<expectedDuration>> ELSE <<>>, diff |-> diff]

RECURSIVE ReportLoop(_, _, _)
\* for (let i = 1; i < this.capturedSnapshots.length; i++) { ... }, from
\* iteration i on; a throw ends the loop
ReportLoop(snaps, st, i) ==
  IF ~(i < Len(snaps)) THEN st
  ELSE
    LET boundary == st.transitionStage % TRANSITION_STAGES = 0
        expectedDuration == Shift(st.expectedDurations)
        stage == IF ~boundary THEN st.transitionStage
                 ELSE IF SnapshotInEnterTransition(snaps, i) THEN 1
                 ELSE IF SnapshotInMoveTransition(snaps, i) THEN 2
                 ELSE 0
        asserted == [st EXCEPT !.expectedDurations = Shifted(@),
                               !.transitionIndex = @ + 1,
                               !.asserted =
                                 Append(@, [transitionIndex |-> st.transitionIndex,
                                            transitionEndIndex |-> i,
                                            transitionStartIndex |-> st.transitionStartIndex,
                                            expectedDuration |-> expectedDuration])]
    IN  IF boundary /\ ~TransitionTookDuration(snaps, i, st.transitionStartIndex, expectedDuration)
          THEN [asserted EXCEPT !.thrown = DurationError(st.transitionIndex, expectedDuration)]
          ELSE ReportLoop(snaps,
                 [(IF boundary THEN asserted ELSE st) EXCEPT
                    !.transitionStage = stage + 1,
                    !.transitionStartIndex = IF boundary THEN i ELSE @,
                    !.formattedReport =
                      Append(@, RenderBlock(i, boundary, expectedDuration,
                                            DiffBetweenSnapshots(snaps, i, i - 1)))],
                 i + 1)

\* getTransitionActivityReport(): its locals when it returns or throws
GetTransitionActivityReport(snaps, triggers) == ReportLoop(snaps, ReportStart(triggers), 1)

\* the promise of analyseTransitionActivity()
(* the report of the earlier analyser, which ends transitions itself *)

\* hrtime.bigint() of a snapshot recorded at the millisecond ms
NanosecondsPerMillisecond == 1000000
HrTime(ms) == ms * NanosecondsPerMillisecond

\* Number((recordedAt - prevRecordedAt) / BigInt(1e6))
TimeElapsedInMsBetweenSnapshotsAtChanges(snaps, current, previous) ==
  (HrTime(snaps[current + 1].recordedAt) - HrTime(snaps[previous + 1].recordedAt))
    \div NanosecondsPerMillisecond

\* capturedSnapshots[change].content.indexOf("enter-active") !== -1
SnapshotAtChangeInEnterTransition(snaps, change) ==
  Includes(snaps[change + 1].content, "enter-active")

\* actualDuration >= duration && actualDuration <= duration + frameWaitTime * 2;
\* both comparisons are false for an undefined duration
TransitionChangeTookDuration(snaps, change, duration) ==
  LET frameWaitTime == TimeElapsedInMsBetweenSnapshotsAtChanges(snaps, change - 1, change - 2)
      actualDuration == TimeElapsedInMsBetweenSnapshotsAtChanges(snaps, change, change - 2)
  IN  /\ duration.defined
      /\ actualDuration >= duration.value
      /\ actualDuration <= duration.value + frameWaitTime * 2

\* the local variables of the earlier getTransitionActivityReport() before its loop
EarlierReportStart(triggers) ==
  [formattedReport |-> <<>>, stage |-> 1, transiton |-> 1,
   durations |-> [k \in DOMAIN triggers |-> triggers[k].expectedDuration],
   asserted |-> <<>>, thrown |-> NoError]

RECURSIVE EarlierReportLoop(_, _, _)
\* for (let change = 1; change < this.capturedSnapshots.length; change++) { ... }
EarlierReportLoop(snaps, st, change) ==
  IF ~(change < Len(snaps)) THEN st
  ELSE
    LET boundary == st.stage % TRANSITION_STAGES = 0
        duration == Shift(st.durations)
        stage == IF ~boundary THEN st.stage
                 ELSE IF SnapshotAtChangeInEnterTransition(snaps, change) THEN 1 ELSE 0
        asserted == [st EXCEPT !.durations = Shifted(@),
                               !.transiton = @ + 1,
                               !.asserted =
                                 Append(@, [transitionIndex |-> st.transiton,
                                            transitionEndIndex |-> change,
                                            transitionStartIndex |-> change - 2,
                                            expectedDuration |-> duration])]
    IN  IF boundary /\ ~TransitionChangeTookDuration(snaps, change, duration)
          THEN [asserted EXCEPT !.thrown = DurationError(st.transiton, duration)]
          ELSE EarlierReportLoop(snaps,
                 [(IF boundary THEN asserted ELSE st) EXCEPT
                    !.stage = stage + 1,
                    !.formattedReport =
                      Append(@, RenderBlock(change, boundary, duration,
                                            DiffBetweenSnapshots(snaps, change, change - 1)))],
                 change + 1)

\* the earlier getTransitionActivityReport(): its locals when it returns or throws
EarlierGetTransitionActivityReport(snaps, triggers) ==
  EarlierReportLoop(snaps, EarlierReportStart(triggers), 1)

Pending == [status |-> "pending", report |-> <<>>, error |-> NoError, asserted |-> <<>>]
Rejected(error, asserted) ==
  [status |-> "rejected", report |-> <<>>, error |-> error, asserted |-> asserted]
Resolved(report, asserted) ==
  [status |-> "resolved", report |-> report, error |-> NoError, asserted |-> asserted]

\* return this.getTransitionActivityReport() in the async function
Settle(st) ==
  IF st.thrown.name # "none" THEN Rejected(st.thrown, st.asserted)
  ELSE Resolved(st.formattedReport, st.asserted)

(* ------------------------------------------------------------------ Init *)

Init ==
  /\ nextTaskId = 1
  /\ taskKillers = EmptyMap
  /\ nextRafHandle = 1
  /\ nextTimerHandle = 1
  /\ rafPending = <<>>
  /\ frameBatch = <<>>
  /\ timers = {}
  /\ issued = <<>>
  /\ consoleErrors = 0
  /\ uncaught = 0
  /\ spy = EmptyMap
  /\ trk = [t \in AllTrackers |-> NoTracker]
  /\ trkLog = [t \in AllTrackers |-> IF t = DomTracker THEN NoSpyLog ELSE NoLog]
  /\ transitonTriggers = <<>>
  /\ chained = "none"
  /\ capturedSnapshots = <<>>
  /\ analysis = "none"
  /\ outcome = Pending
  /\ closures = <<>>
  /\ microtasks = <<>>
  /\ innerHTML = "<p>x</p>"
  /\ frameNo = 0
  /\ mutations = 0
  /\ dispatched = "none"
  /\ execLog = <<>>

(* --------------------------------------------- the test driving the scheduler *)

\* the id a schedule operation called now returns to its caller
ReturnedId == GetNextTaskId(Cur).id

CanSchedule(need) == nextTaskId + Reserved(Cur) + need - 1 <= MaxTasks

TestScheduleAnimationFrame ==
  /\ CanSchedule(1)
  /\ \E throws \in BOOLEAN :
       Commit(ScheduleAnimationFrame(Cur, UserCallback(ReturnedId, throws)))
  /\ spy' = MapSet(spy, ReturnedId, NewSpy("frame"))
  /\ UNCHANGED <<trackerVars, analyserVars, domVars>>

TestScheduleTimeout ==
  /\ CanSchedule(1)
  /\ \E throws \in BOOLEAN :
       Commit(ScheduleTimeout(Cur, UserCallback(ReturnedId, throws)))
  /\ spy' = MapSet(spy, ReturnedId, NewSpy("timeout"))
  /\ UNCHANGED <<trackerVars, analyserVars, domVars>>

TestScheduleAnimationFrameAfterNext ==
  /\ CanSchedule(2)
  /\ \E throws \in BOOLEAN :
       Commit(ScheduleAnimationFrameAfterNext(Cur, UserCallback(ReturnedId, throws)))
  /\ spy' = MapSet(spy, ReturnedId, NewSpy("afterNext"))
  /\ UNCHANGED <<trackerVars, analyserVars, domVars>>

\* cancelTask with any id: live, completed, cancelled or never issued
TestCancelTask ==
  \E id \in 1..(MaxTasks + 1) :
    LET T == CancelTask(Cur, id)
    IN  /\ Commit(T)
        /\ spy' = SpyAfterCancel(Cur, T, {id}, FALSE)
        /\ UNCHANGED <<trackerVars, analyserVars, domVars>>

TestCancelAllTasks ==
  LET T == CancelAllTasks(Cur)
  IN  /\ Commit(T)
      /\ spy' = SpyAfterCancel(Cur, T, {}, TRUE)
      /\ UNCHANGED <<trackerVars, analyserVars, domVars>>

(* ------------------------------------------------------------ the event loop *)

\* A display frame starts: the callbacks requested so far form its batch;
\* requests made while the batch runs wait for the next frame.
FrameStarts ==
  /\ frameBatch = <<>>
  /\ rafPending # <<>>
  /\ frameBatch' = rafPending
  /\ rafPending' = <<>>
  /\ spy' = [k \in DOMAIN spy |->
               IF k \in PendingUsers(Cur) /\ spy[k].frames < 2
                 THEN [spy[k] EXCEPT !.frames = @ + 1] ELSE spy[k]]
  /\ UNCHANGED <<nextTaskId, taskKillers, nextRafHandle, nextTimerHandle, timers, issued,
                 consoleErrors, uncaught>>

\* a frame, in tests that do not read the clock
BeginFrame == FrameStarts /\ UNCHANGED <<trackerVars, analyserVars, domVars>>

\* What the platform may invoke next, each with the state it is invoked in:
\* the head of the running frame's batch, or any pending timer.
Dispatchable ==
  (IF frameBatch = <<>> THEN {}
   ELSE {[req |-> Head(frameBatch), S |-> [Cur EXCEPT !.frameBatch = Tail(@)]]})
  \cup {[req |-> r, S |-> [Cur EXCEPT !.timers = @ \ {r}]] : r \in timers}

\* the platform invokes () => executeTask(callback, taskId), callback a test spy
RunUser(d) ==
  /\ d.req.cb.type = "user" /\ ~d.req.cb.wrap
  /\ Commit(ExecuteTask(d.S, d.req.task, d.req.cb.throws))
  /\ spy' = [spy EXCEPT ![d.req.cb.arg].calls = @ + 1]
  /\ UNCHANGED <<trackerVars, analyserVars, domVars>>

RunUserTask == \E d \in Dispatchable : RunUser(d)

\* the platform invokes the first frame of scheduleAnimationFrameAfterNext:
\* callback is () => this.scheduleAnimationFrame(inner)
RunChainTask ==
  \E d \in Dispatchable :
    /\ d.req.cb.wrap
    /\ Commit(ExecuteTask(ScheduleAnimationFrame(d.S, Unwrap(d.req.cb)), d.req.task, FALSE))
    /\ UNCHANGED <<spy, trackerVars, analyserVars, domVars>>

NextTM ==
  \/ TestScheduleAnimationFrame
  \/ TestScheduleTimeout
  \/ TestScheduleAnimationFrameAfterNext
  \/ TestCancelTask
  \/ TestCancelAllTasks
  \/ BeginFrame
  \/ RunUserTask
  \/ RunChainTask

SpecTM == Init /\ [][NextTM]_vars

(* --------------------------------------------- the test driving a tracker *)

\* trackDOMContentChanges(getContent, onContentChange): the closure is created
\* and notifyIfContentChange() runs once, synchronously.
Track ==
  \E t \in Trackers, v \in Contents :
    /\ ~trk[t].started
    /\ CommitTracker(
         NotifyIfContentChange(
           [S |-> Cur, trk |-> NewTracker, log |-> NoLog, out |-> <<>>], t, v, FALSE), t)
    /\ UNCHANGED <<spy, analyserVars, domVars>>

\* the test calls untrack(), any number of times
TestUntrack ==
  \E t \in Trackers :
    /\ trk[t].started
    /\ CommitTracker(Untrack(TrackerWorld(Cur, t)), t)
    /\ UNCHANGED <<spy, analyserVars, domVars>>

\* the platform invokes () => executeTask(notifyIfContentChange, taskId)
RunPoll(d, v, untracks) ==
  LET t == d.req.cb.arg
      W == NotifyIfContentChange(TrackerWorld(d.S, t), t, v, untracks)
  IN  /\ d.req.cb.type = "poll" /\ t \in Trackers
      /\ trk[t].stopTracking \/ Len(trkLog[t].evals) < MaxPolls
      /\ CommitTracker([W EXCEPT !.S = ExecuteTask(W.S, d.req.task, FALSE)], t)
      /\ UNCHANGED <<spy, analyserVars, domVars>>

RunPollTask ==
  \E d \in Dispatchable, v \in Contents, untracks \in BOOLEAN : RunPoll(d, v, untracks)

NextTracker ==
  \/ Track
  \/ TestUntrack
  \/ TestCancelAllTasks
  \/ BeginFrame
  \/ RunPollTask

SpecTracker == Init /\ [][NextTracker]_vars

(* ------------------------------------------ a tracker whose callbacks throw *)

\* the callbacks of a tracker that may throw
Throwers == {"getContent", "onContentChange"}

\* what the getContent spy records of a call that threw
Thrown == "thrown"

\* faulty variant: the next poll is scheduled although the callback threw
NotifyIfContentChangeThrows_Rescheduled(W, t, v, thrower, untracks) ==
  LET W1 == [W EXCEPT !.log.evals = Append(@, Thrown)]
      newId == GetNextTaskId(W1.S).id
  IN  [W1 EXCEPT !.S = ScheduleAnimationFrame(W1.S, PollCallback(t)),
                 !.trk.taskId = newId]

\* notifyIfContentChange() of a tracker that is not stopped, left by an
\* exception: getContent throws, or it returns v, which differs from
\* lastContentValue, and onContentChange throws, after calling untrack() if
\* untracks. Nothing after the throwing call runs.
NotifyIfContentChangeThrows(W, t, v, thrower, untracks) ==
  IF thrower = "getContent"
    THEN [W EXCEPT !.log.evals = Append(@, Thrown)]
    ELSE LET W2 == [W EXCEPT !.log.evals = Append(@, v),
                             !.trk.lastContentValue = v,
                             !.out = Append(@, v),
                             !.log.delivered = Append(@, v)]
         IN  IF untracks THEN Untrack(W2) ELSE W2

\* the platform invokes () => executeTask(notifyIfContentChange, taskId), and
\* the call is left by an exception, which executeTask catches
RunThrowingPoll(d, v, thrower, untracks) ==
  LET t == d.req.cb.arg
      W == NotifyIfContentChangeThrows(TrackerWorld(d.S, t), t, v, thrower, untracks)
  IN  /\ d.req.cb.type = "poll" /\ t \in Trackers
      /\ ~trk[t].stopTracking
      /\ Len(trkLog[t].evals) < MaxPolls
      /\ thrower = "onContentChange" => Differs(trk[t].lastContentValue, v)
      /\ thrower = "getContent" => v = Undefined /\ ~untracks
      /\ CommitTracker([W EXCEPT !.S = ExecuteTask(W.S, d.req.task, TRUE)], t)
      /\ UNCHANGED <<spy, analyserVars, domVars>>

RunThrowingPollTask ==
  \E d \in Dispatchable, v \in Contents, thrower \in Throwers, untracks \in BOOLEAN :
    RunThrowingPoll(d, v, thrower, untracks)

\* a poll that returns normally; an onContentChange that calls untrack() and
\* returns is the subject of SpecTracker
RunPlainPollTask == \E d \in Dispatchable, v \in Contents : RunPoll(d, v, FALSE)

NextTrackerThrows ==
  \/ Track
  \/ TestUntrack
  \/ TestCancelAllTasks
  \/ BeginFrame
  \/ RunPlainPollTask
  \/ RunThrowingPollTask

SpecTrackerThrows == Init /\ [][NextTrackerThrows]_vars

(* ------------------------------------------------------------- the analyser *)

\* expected durations a test may give, in milliseconds
Durations == {75}

\* the frame interval of the tests' requestAnimationFrame, in milliseconds
FRAME_WAITING_TIME == 16

\* Date.now()
Now == frameNo * FRAME_WAITING_TIME

ResolveCallback(k) == [type |-> "resolve", arg |-> k, throws |-> FALSE, wrap |-> FALSE]

\* an async reduce callback that has not passed `await previous` yet. awaiting
\* holds the elements whose transitionend listener is attached; since (the
\* frame in which the running waitForNextFrame was called), sampled (the
\* elements getTransitioningElements() returned) and heard (the sampled
\* elements an event was dispatched at while the listeners were awaited) record
\* the course of the wait.
NewClosure ==
  [pc |-> "awaitPrevious", awaiting |-> {}, error |-> NoError,
   since |-> 0, sampled |-> {}, heard |-> {}]

\* the promise reaction queued when the promise of closure k settles: the next
\* closure waits for it in `await previous`, the last one is awaited by
\* synchronouslyTriggerTransitionEvents
Successor(k) ==
  IF k < Len(closures) THEN [kind |-> "resume", k |-> k + 1] ELSE [kind |-> "main", k |-> 0]

\* faulty variant: no closure waits for the previous one
InitiallyResumed_NoAwait(n) ==
  [i \in 1..(n + 1) |-> IF i <= n THEN [kind |-> "resume", k |-> i] ELSE [kind |-> "main", k |-> 0]]

\* reduce(async (previous, trigger) => { await previous; ... }, Promise.resolve()):
\* only the first closure's `await previous` is already fulfilled
InitiallyResumed(n) ==
  IF n > 0 THEN <<[kind |-> "resume", k |-> 1]>> ELSE <<[kind |-> "main", k |-> 0]>>

\* faulty variant: the rejection of the previous closure is swallowed
PreviousRejected_Swallowed(k) == FALSE

\* `await previous` throws in closure k: the previous closure's promise rejected
PreviousRejected(k) == k > 1 /\ closures[k - 1].pc = "rejected"

\* closure k is between its execute and the end of its completion wait
InWait(k) == closures[k].pc \in {"frame1", "events", "frame2"}

\* new ComponentTransitionAnalyser(component): binds the rendered component
\* and locates its container, whatever it shows
Construct ==
  /\ analysis = "none"
  /\ analysis' = "idle"
  /\ innerHTML' \in Markup
  /\ UNCHANGED <<tmVars, spy, trackerVars, transitonTriggers, chained, capturedSnapshots, outcome,
                 closures, microtasks, execLog, frameNo, mutations, dispatched>>

\* faulty variant: the trigger is put in front of the queue
Push_Unshift(array, element) == <<element>> \o array

\* array.push(element)
Push(array, element) == Append(array, element)

\* addTransitionTrigger(transitionTrigger): push, return this
AddTransitionTrigger ==
  /\ analysis = "idle"
  /\ Len(transitonTriggers) < MaxTriggers
  /\ \E d \in Durations :
       transitonTriggers' = Push(transitonTriggers, [execute |-> "act", expectedDuration |-> d])
  /\ chained' = "this"
  /\ UNCHANGED <<tmVars, spy, trackerVars, capturedSnapshots, analysis, outcome, closures,
                 microtasks, execLog, domVars>>

\* expectFollowUpTransition(expectedDuration): push a trigger whose execute is
\* () => {}, return this
ExpectFollowUpTransition ==
  /\ analysis = "idle"
  /\ Len(transitonTriggers) < MaxTriggers
  /\ \E d \in Durations :
       transitonTriggers' = Push(transitonTriggers, [execute |-> "noop", expectedDuration |-> d])
  /\ chained' = "this"
  /\ UNCHANGED <<tmVars, spy, trackerVars, capturedSnapshots, analysis, outcome, closures,
                 microtasks, execLog, domVars>>

\* faulty variant: new snapshots are put in front of the list
PushSnapshots_Unshift(out) ==
  [i \in DOMAIN out |-> [content |-> FormatHTML(out[i]), recordedAt |-> Now]] \o capturedSnapshots

\* onContentChange of the analyser's tracker, for each value in out
PushSnapshots(out) ==
  capturedSnapshots \o [i \in DOMAIN out |-> [content |-> FormatHTML(out[i]), recordedAt |-> Now]]

\* analyseTransitionActivity() up to its first suspension: the tracker starts
\* and takes the first snapshot, reduce creates the closures
AnalyseTransitionActivity ==
  /\ analysis = "idle"
  /\ LET W == NotifyIfContentChange(
                [S |-> Cur, trk |-> NewTracker, log |-> NoSpyLog, out |-> <<>>],
                DomTracker, innerHTML, FALSE)
     IN  /\ CommitTracker(W, DomTracker)
         /\ capturedSnapshots' = PushSnapshots(W.out)
  /\ analysis' = "capturing"
  /\ closures' = [k \in DOMAIN transitonTriggers |-> NewClosure]
  /\ microtasks' = InitiallyResumed(Len(transitonTriggers))
  /\ UNCHANGED <<spy, transitonTriggers, chained, outcome, execLog, domVars>>

\* executeTransitionTrigger(this.transitionComponent): what the container may
\* show afterwards. A caller's action changes it; () => {} leaves it alone.
ExecuteTransitionTrigger(trigger) ==
  IF trigger.execute = "noop" THEN {innerHTML} ELSE Markup \ {innerHTML}

\* a closure passes `await previous`: it rejects if the previous one rejected,
\* else it invokes its trigger's execute and starts waiting for the transition
\* (waitDurationForTransitionToComplete up to its first waitForNextFrame)
RunResume ==
  /\ microtasks # <<>> /\ Head(microtasks).kind = "resume"
  /\ LET k == Head(microtasks).k
     IN  IF PreviousRejected(k)
           THEN /\ closures' = [closures EXCEPT ![k].pc = "rejected",
                                                 ![k].error = closures[k - 1].error]
                /\ microtasks' = Append(Tail(microtasks), Successor(k))
                /\ UNCHANGED <<tmVars, execLog, domVars>>
           ELSE /\ innerHTML' \in ExecuteTransitionTrigger(transitonTriggers[k])
                /\ execLog' = Append(execLog, k)
                /\ Commit(ScheduleAnimationFrameAfterNext(Cur, ResolveCallback(k)))
                /\ closures' = [closures EXCEPT ![k].pc = "frame1", ![k].since = frameNo]
                /\ microtasks' = Tail(microtasks)
                /\ UNCHANGED <<frameNo, mutations, dispatched>>
  /\ UNCHANGED <<spy, trackerVars, transitonTriggers, chained, capturedSnapshots, analysis,
                 outcome>>

\* the second frame of a waitForNextFrame fires: resolve() of its promise
RunResolveTask ==
  /\ microtasks = <<>>
  /\ \E d \in Dispatchable :
       /\ d.req.cb.type = "resolve" /\ ~d.req.cb.wrap
       /\ Commit(ExecuteTask(d.S, d.req.task, FALSE))
       /\ microtasks' = Append(microtasks, [kind |-> "afterFrame", k |-> d.req.cb.arg])
  /\ UNCHANGED <<spy, trackerVars, transitonTriggers, chained, capturedSnapshots, analysis,
                 outcome, closures,
                 execLog, domVars>>

\* faulty variant: an element whose completion event was the last one
\* dispatched counts as completed already
WaitForTransitionEndEvents_Remembered(elements) == elements \ {dispatched}

\* getTransitioningElements().map(this.waitForTransitionEndEvent): the
\* elements a listener is added to, each awaited by Promise.all
WaitForTransitionEndEvents(elements) == elements

\* getTransitioningElements() after the first waitForNextFrame, then a
\* transitionend listener on each element found
SampleTransitioningElements ==
  /\ microtasks # <<>> /\ Head(microtasks).kind = "afterFrame"
  /\ LET k == Head(microtasks).k
     IN  /\ closures[k].pc = "frame1"
         /\ IF TransitioningElements(innerHTML) = {}
              THEN /\ closures' = [closures EXCEPT ![k].pc = "rejected",
                                                    ![k].since = 0,
                                                    ![k].error = NoTransitioningElementsError]
                   /\ microtasks' = Append(Tail(microtasks), Successor(k))
              ELSE /\ closures' = [closures EXCEPT ![k].pc = "events",
                                                    ![k].since = 0,
                                                    ![k].sampled = TransitioningElements(innerHTML),
                                                    ![k].awaiting =
                                                      WaitForTransitionEndEvents(
                                                        TransitioningElements(innerHTML))]
                   /\ microtasks' = Tail(microtasks)
  /\ UNCHANGED <<tmVars, spy, trackerVars, transitonTriggers, chained, capturedSnapshots,
                 analysis, outcome,
                 execLog, domVars>>

\* a listener on element l is invoked for an event whose target is e
Receives(l, e) == l = e \/ l \in Ancestors(e)

\* faulty variant: the handler resolves for an event bubbling up from a descendant
HandlerResolves_AnyTarget(l, e) == TRUE

\* event.target === element
HandlerResolves(l, e) == e = l

\* the transition library rewrites the container, or leaves it as it is
MayRewrite ==
  \/ UNCHANGED <<innerHTML, mutations>>
  \/ /\ mutations < MaxMutations
     /\ innerHTML' \in Markup \ {innerHTML}
     /\ mutations' = mutations + 1

\* transitionend is dispatched at element e and bubbles: the listeners it
\* reaches run, the library's own listener may rewrite the container (class
\* cleanup)
DispatchTransitionEnd(e) ==
  /\ microtasks = <<>>
  /\ analysis = "capturing"
  /\ MayRewrite
  /\ UNCHANGED frameNo
  /\ LET Left(k) == {l \in closures[k].awaiting : ~(Receives(l, e) /\ HandlerResolves(l, e))}
         Done(k) == closures[k].pc = "events" /\ closures[k].awaiting # {} /\ Left(k) = {}
         done == SelectSeq([k \in DOMAIN closures |-> k], Done)
     IN  /\ dispatched' = e
         /\ closures' = [k \in DOMAIN closures |->
                           [closures[k] EXCEPT
                              !.awaiting = Left(k),
                              !.heard = IF closures[k].pc = "events"
                                          THEN @ \cup ({e} \cap closures[k].sampled) ELSE @]]
         /\ microtasks' = [i \in DOMAIN done |-> [kind |-> "afterEvents", k |-> done[i]]]
  /\ UNCHANGED <<tmVars, spy, trackerVars, transitonTriggers, chained, capturedSnapshots,
                 analysis, outcome, execLog>>

\* the platform dispatches transitionend at an element of the container whose
\* transition ran to its end
TransitionEnd == \E e \in TransitioningElements(innerHTML) : DispatchTransitionEnd(e)

\* Promise.all resolved: the second waitForNextFrame
RunAfterEvents ==
  /\ microtasks # <<>> /\ Head(microtasks).kind = "afterEvents"
  /\ LET k == Head(microtasks).k
     IN  /\ Commit(ScheduleAnimationFrameAfterNext(Cur, ResolveCallback(k)))
         /\ closures' = [closures EXCEPT ![k].pc = "frame2", ![k].since = frameNo]
  /\ microtasks' = Tail(microtasks)
  /\ UNCHANGED <<spy, trackerVars, transitonTriggers, chained, capturedSnapshots, analysis, outcome,
                 execLog, domVars>>

\* the second waitForNextFrame resolved: the closure's promise is fulfilled
FinishWait ==
  /\ microtasks # <<>> /\ Head(microtasks).kind = "afterFrame"
  /\ LET k == Head(microtasks).k
     IN  /\ closures[k].pc = "frame2"
         /\ closures' = [closures EXCEPT ![k].pc = "fulfilled", ![k].since = 0]
         /\ microtasks' = Append(Tail(microtasks), Successor(k))
  /\ UNCHANGED <<tmVars, spy, trackerVars, transitonTriggers, chained, capturedSnapshots,
                 analysis, outcome,
                 execLog, domVars>>

\* captureTransitionSnapshots() after `await synchronouslyTriggerTransitionEvents()`:
\* untrack() if every closure was fulfilled, else the rejection propagates to
\* the promise of analyseTransitionActivity()
RunMain ==
  /\ microtasks # <<>> /\ Head(microtasks).kind = "main"
  /\ IF closures = <<>> \/ closures[Len(closures)].pc = "fulfilled"
       THEN /\ CommitTracker(Untrack(TrackerWorld(Cur, DomTracker)), DomTracker)
            /\ analysis' = "captured"
            /\ microtasks' = Append(Tail(microtasks), [kind |-> "report", k |-> 0])
            /\ UNCHANGED outcome
       ELSE /\ analysis' = "rejected"
            /\ outcome' = Rejected(closures[Len(closures)].error, <<>>)
            /\ microtasks' = Tail(microtasks)
            /\ UNCHANGED <<tmVars, trackerVars>>
  /\ UNCHANGED <<spy, transitonTriggers, chained, capturedSnapshots, closures, execLog, domVars>>

\* analyseTransitionActivity() after `await this.captureTransitionSnapshots()`:
\* return this.getTransitionActivityReport()
RunReport ==
  /\ microtasks # <<>> /\ Head(microtasks).kind = "report"
  /\ microtasks' = Tail(microtasks)
  /\ outcome' = Settle(GetTransitionActivityReport(capturedSnapshots, transitonTriggers))
  /\ analysis' = outcome'.status
  /\ UNCHANGED <<tmVars, spy, trackerVars, transitonTriggers, chained, capturedSnapshots, closures,
                 execLog, domVars>>

\* a frame callback of the transition library rewrites the container
\* (next-frame class swap, a chained transition starting) while a frame runs
LibraryRewritesContainer ==
  /\ microtasks = <<>>
  /\ analysis = "capturing"
  /\ frameBatch # <<>>
  /\ mutations < MaxMutations
  /\ innerHTML' \in Markup \ {innerHTML}
  /\ mutations' = mutations + 1
  /\ UNCHANGED <<tmVars, spy, trackerVars, analyserVars, frameNo, dispatched>>

\* a frame of the analysed page: the clock advances by one frame interval
BeginTimedFrame ==
  /\ microtasks = <<>>
  /\ frameNo < MaxFrames
  /\ FrameStarts
  /\ frameNo' = frameNo + 1
  /\ UNCHANGED <<trackerVars, analyserVars, innerHTML, mutations, dispatched>>

\* the platform invokes the poll of the analyser's tracker
RunDomPollTask ==
  /\ microtasks = <<>>
  /\ \E d \in Dispatchable :
       /\ d.req.cb.type = "poll" /\ d.req.cb.arg = DomTracker
       /\ LET W == NotifyIfContentChange(TrackerWorld(d.S, DomTracker), DomTracker,
                                         innerHTML, FALSE)
          IN  /\ CommitTracker([W EXCEPT !.S = ExecuteTask(W.S, d.req.task, FALSE)], DomTracker)
              /\ capturedSnapshots' = PushSnapshots(W.out)
  /\ UNCHANGED <<spy, transitonTriggers, chained, analysis, outcome, closures, microtasks,
                 execLog, domVars>>

\* the first frame of a waitForNextFrame
RunWaitChainTask == microtasks = <<>> /\ RunChainTask

NextAnalyser ==
  \/ Construct
  \/ AddTransitionTrigger
  \/ ExpectFollowUpTransition
  \/ AnalyseTransitionActivity
  \/ RunResume
  \/ SampleTransitioningElements
  \/ RunAfterEvents
  \/ FinishWait
  \/ RunMain
  \/ RunReport
  \/ TransitionEnd
  \/ LibraryRewritesContainer
  \/ BeginTimedFrame
  \/ RunWaitChainTask
  \/ RunResolveTask
  \/ RunDomPollTask

SpecAnalyser == Init /\ [][NextAnalyser]_vars

(* ------------------------------------------ the analyser with a fair event loop *)

\* the reduce closures whose transitionend listeners are still awaited
Listening == {k \in DOMAIN closures : closures[k].awaiting # {}}

\* the frames that N waits take: two calls of waitForNextFrame each, two
\* frames per call
WaitFrames(N) == 2 * 2 * N

\* A frame of a page whose frames keep firing, as long as the analysis runs:
\* MaxFrames bounds the frames that pass while events are awaited, the frames
\* the waits themselves need come on top.
BeginFairFrame ==
  /\ microtasks = <<>>
  /\ analysis = "capturing"
  /\ \/ frameNo < MaxFrames
     \/ Listening = {} /\ frameNo < MaxFrames + WaitFrames(Len(closures))
  /\ FrameStarts
  /\ frameNo' = frameNo + 1
  /\ UNCHANGED <<trackerVars, analyserVars, innerHTML, mutations, dispatched>>

\* a sampled element emits the completion event of its transition, whatever
\* the container has become since it was sampled
AwaitedTransitionEnd ==
  \E k \in Listening : \E e \in closures[k].awaiting : DispatchTransitionEnd(e)

\* the promise reactions and continuations of the async functions
RunMicrotask ==
  \/ RunResume
  \/ SampleTransitioningElements
  \/ RunAfterEvents
  \/ FinishWait
  \/ RunMain
  \/ RunReport

\* the frame callbacks the platform invokes
RunFrameTask ==
  \/ RunWaitChainTask
  \/ RunResolveTask
  \/ RunDomPollTask

NextFair ==
  \/ Construct
  \/ AddTransitionTrigger
  \/ ExpectFollowUpTransition
  \/ AnalyseTransitionActivity
  \/ RunMicrotask
  \/ TransitionEnd
  \/ AwaitedTransitionEnd
  \/ LibraryRewritesContainer
  \/ BeginFairFrame
  \/ RunFrameTask

\* The event loop runs every queued microtask, starts a frame whenever a frame
\* callback is requested and invokes every callback of a frame; a sampled
\* element whose listener is awaited emits its completion event. Nothing is
\* assumed about the test's own calls or about the library.
SpecAnalyserFair ==
  /\ Init
  /\ [][NextFair]_vars
  /\ WF_vars(RunMicrotask)
  /\ WF_vars(BeginFairFrame)
  /\ WF_vars(RunFrameTask)
  /\ WF_vars(AwaitedTransitionEnd)

(* ------------------------------------------------------- the report alone *)

\* Date.now() values at which snapshots are recorded, in milliseconds
ReportTimes == {0, 1, 75, 171}

\* expected durations of the queued triggers, in milliseconds
ReportDurations == {75, 95}

\* formatted markup a snapshot may hold
ReportContents == {FormatHTML(h) : h \in Markup}

RECURSIVE TriggerQueues(_)
\* the queues of at most n triggers
TriggerQueues(n) ==
  IF n = 0 THEN {<<>>}
  ELSE LET shorter == TriggerQueues(n - 1)
       IN  shorter \cup
             {Append(q, [execute |-> e, expectedDuration |-> d]) :
                q \in {r \in shorter : Len(r) = n - 1}, e \in {"act"}, d \in ReportDurations}

\* an analysis in its capture phase: the triggers were queued and have
\* executed, the tracker has delivered the container's initial markup
InitReport ==
  /\ nextTaskId = 1
  /\ taskKillers = EmptyMap
  /\ nextRafHandle = 1
  /\ nextTimerHandle = 1
  /\ rafPending = <<>>
  /\ frameBatch = <<>>
  /\ timers = {}
  /\ issued = <<>>
  /\ consoleErrors = 0
  /\ uncaught = 0
  /\ spy = EmptyMap
  /\ trk = [t \in AllTrackers |-> IF t = DomTracker THEN NewTracker ELSE NoTracker]
  /\ trkLog = [t \in AllTrackers |-> IF t = DomTracker THEN NoSpyLog ELSE NoLog]
  /\ transitonTriggers \in TriggerQueues(MaxTriggers)
  /\ chained = IF transitonTriggers = <<>> THEN "none" ELSE "this"
  /\ capturedSnapshots \in {<<[content |-> c, recordedAt |-> 0]>> : c \in ReportContents}
  /\ analysis = "capturing"
  /\ outcome = Pending
  /\ closures = [k \in DOMAIN transitonTriggers |-> [NewClosure EXCEPT !.pc = "fulfilled"]]
  /\ microtasks = <<>>
  /\ innerHTML = "<p>x</p>"
  /\ frameNo = 0
  /\ mutations = 0
  /\ dispatched = "none"
  /\ execLog = [k \in DOMAIN transitonTriggers |-> k]

\* onContentChange of the analyser's tracker at some later Date.now()
RecordSnapshot ==
  /\ analysis = "capturing"
  /\ microtasks = <<>>
  /\ Len(capturedSnapshots) < MaxSnapshots
  /\ \E c \in ReportContents, t \in ReportTimes :
       /\ t >= capturedSnapshots[Len(capturedSnapshots)].recordedAt
       /\ capturedSnapshots' = Append(capturedSnapshots, [content |-> c, recordedAt |-> t])
  /\ UNCHANGED <<tmVars, spy, trackerVars, transitonTriggers, chained, analysis, outcome, closures,
                 microtasks, execLog, domVars>>

\* the promise of the last reduce closure is fulfilled
LastWaitEnds ==
  /\ analysis = "capturing"
  /\ microtasks = <<>>
  /\ microtasks' = <<[kind |-> "main", k |-> 0]>>
  /\ UNCHANGED <<tmVars, spy, trackerVars, transitonTriggers, chained, capturedSnapshots, analysis,
                 outcome, closures, execLog, domVars>>

NextReport ==
  \/ RecordSnapshot
  \/ LastWaitEnds
  \/ RunMain
  \/ RunReport

SpecReport == InitReport /\ [][NextReport]_vars

(* --------------------------------------------------- the stages of a report *)

\* formatted markup of a container that may also hold moving items
StageContents == {FormatHTML(h) : h \in Markup \cup MoveMarkup}

\* The snapshots follow one another at the shortest interval that
\* transitionTookDuration() accepts for a transition of 75 ms, so that one,
\* two or three intervals all fall in its window.
StageInterval == 75 - fpsBuffer

\* as InitReport, every trigger expecting 75 ms
InitStages ==
  /\ InitReport
  /\ \A k \in DOMAIN transitonTriggers : transitonTriggers[k].expectedDuration \in Durations

\* onContentChange of the analyser's tracker, one interval after the last
RecordStage ==
  /\ analysis = "capturing"
  /\ microtasks = <<>>
  /\ Len(capturedSnapshots) < MaxSnapshots
  /\ \E c \in StageContents :
       capturedSnapshots' =
         Append(capturedSnapshots,
                [content |-> c,
                 recordedAt |-> capturedSnapshots[Len(capturedSnapshots)].recordedAt
                                  + StageInterval])
  /\ UNCHANGED <<tmVars, spy, trackerVars, transitonTriggers, chained, analysis, outcome, closures,
                 microtasks, execLog, domVars>>

NextStages ==
  \/ RecordStage
  \/ LastWaitEnds
  \/ RunMain
  \/ RunReport

SpecStages == InitStages /\ [][NextStages]_vars

(* -------------------------------------------------------- the formatter alone *)

\* an opening tag and its closing tag: without attributes, with attributes in
\* double and in single quotes (the inputs of the HTMLFormatter suite)
TagPairs ==
  {<<"<div>", "</div>">>,
   <<"<div class=\"enter enter-from\" scoped>", "</div>">>,
   <<"<div class='enter enter-from' scoped>", "</div>">>,
   <<"<span>", "</span>">>}

\* markup without child elements
Leaves == {"x", " x ", "Hello!", "<br/>"}

RECURSIVE Fragments(_)
\* markup nested at most depth elements deep
Fragments(depth) ==
  IF depth = 0 THEN Leaves
  ELSE LET inner == Fragments(depth - 1)
       IN  inner \cup {pair[1] \o body \o pair[2] : pair \in TagPairs, body \in inner}

\* the markup handed to formatHTML
FormatterInputs == Fragments(MaxDepth) \cup Markup \cup MoveMarkup

\* as Init, the container holding any of the inputs
InitFormatter ==
  /\ nextTaskId = 1
  /\ taskKillers = EmptyMap
  /\ nextRafHandle = 1
  /\ nextTimerHandle = 1
  /\ rafPending = <<>>
  /\ frameBatch = <<>>
  /\ timers = {}
  /\ issued = <<>>
  /\ consoleErrors = 0
  /\ uncaught = 0
  /\ spy = EmptyMap
  /\ trk = [t \in AllTrackers |-> NoTracker]
  /\ trkLog = [t \in AllTrackers |-> IF t = DomTracker THEN NoSpyLog ELSE NoLog]
  /\ transitonTriggers = <<>>
  /\ chained = "none"
  /\ capturedSnapshots = <<>>
  /\ analysis = "none"
  /\ outcome = Pending
  /\ closures = <<>>
  /\ microtasks = <<>>
  /\ innerHTML \in FormatterInputs
  /\ frameNo = 0
  /\ mutations = 0
  /\ dispatched = "none"
  /\ execLog = <<>>

\* the formatted markup last stored, "" if none
LastFormatted ==
  IF capturedSnapshots = <<>> THEN "" ELSE capturedSnapshots[Len(capturedSnapshots)].content

\* const content = formatHTML(newContent), stored as a snapshot
FormatContainer ==
  /\ Len(capturedSnapshots) < MaxSnapshots
  /\ capturedSnapshots = <<>> \/ FormatHTMLComputed(innerHTML) # LastFormatted
  /\ capturedSnapshots' =
       Append(capturedSnapshots, [content |-> FormatHTMLComputed(innerHTML), recordedAt |-> Now])
  /\ UNCHANGED <<tmVars, spy, trackerVars, transitonTriggers, chained, analysis, outcome, closures,
                 microtasks, execLog, domVars>>

\* the formatted markup becomes the markup to format
FormatAgain ==
  /\ capturedSnapshots # <<>>
  /\ innerHTML # LastFormatted
  /\ innerHTML' = LastFormatted
  /\ UNCHANGED <<tmVars, spy, trackerVars, analyserVars, frameNo, mutations, dispatched>>

NextFormatter ==
  \/ FormatContainer
  \/ FormatAgain

SpecFormatter == InitFormatter /\ [][NextFormatter]_vars

(* ------------------------------------------------------------ claims C1..C6 *)

Called(k) == spy[k].calls > 0

\* registry entries whose platform request will (directly or through the wrap
\* closure) invoke user callback k
EntriesOf(k) ==
  {id \in DOMAIN taskKillers :
     \E r \in AllRequests(Cur) :
       /\ r.task = id /\ r.h = taskKillers[id].h
       /\ r.cb.type = "user" /\ r.cb.arg = k}

\* C1: for every id returned by a schedule operation, cancelTask(id) called
\* before the user callback was invoked means the callback is never invoked.
C1_CancelledNeverInvoked ==
  \A k \in DOMAIN spy : spy[k].cancelled => ~Called(k)

\* C1 restricted to ids returned by scheduleAnimationFrame and scheduleTimeout
\* (the part of C1 the code does satisfy).
C1_DirectCancelledNeverInvoked ==
  \A k \in DOMAIN spy :
    (spy[k].kind # "afterNext" /\ spy[k].cancelled) => ~Called(k)

\* C2: after cancelAllTasks() runningTasks is 0, and no callback scheduled
\* before the call and not yet invoked at the call is ever invoked, whatever
\* mix of frame, timeout and frame-after-next tasks was outstanding.
C2_CancelAllStopsEverything ==
  /\ [](\A k \in DOMAIN spy : spy[k].swept => ~Called(k))
  /\ [][TestCancelAllTasks => (RunningTasks(Cur))' = 0]_vars

\* C2 witness: everything was swept, among it a frame-after-next task whose
\* first frame had fired and a timeout; nothing is left and nothing was called.
C2_Witness ==
  /\ \E k \in DOMAIN spy :
       spy[k].kind = "afterNext" /\ spy[k].swept /\ spy[k].killedAt = "last"
  /\ \E k \in DOMAIN spy : spy[k].kind = "timeout" /\ spy[k].swept
  /\ AllRequests(Cur) = {}
  /\ RunningTasks(Cur) = 0

\* C3: when a scheduled callback throws, exactly one error is reported, nothing
\* propagates to the platform, the task leaves the registry (runningTasks
\* decreases by one) and every other outstanding task keeps its registry entry
\* and its pending platform request.
C3_ThrowIsContained ==
  [][\A d \in Dispatchable :
       (RunUser(d) /\ d.req.cb.throws) =>
         /\ consoleErrors' = consoleErrors + 1
         /\ uncaught' = uncaught
         /\ d.req.task \in DOMAIN taskKillers
         /\ taskKillers' = MapDelete(taskKillers, d.req.task)
         /\ (RunningTasks(Cur))' = RunningTasks(Cur) - 1
         /\ (AllRequests(Cur))' = AllRequests(Cur) \ {d.req}]_vars

\* C3 witness: a callback threw and was reported while another task is still
\* scheduled, and a task scheduled before the throw has fired after it.
C3_Witness ==
  /\ consoleErrors = 1
  /\ uncaught = 0
  /\ RunningTasks(Cur) = 1
  /\ Cardinality(AllRequests(Cur)) = 1
  /\ \E k \in DOMAIN spy : Called(k) /\ spy[k].kind = "afterNext"

\* C4: task ids are strictly increasing, hence never reused, over every schedule
\* operation (the inner frame of scheduleAnimationFrameAfterNext included).
C4_IdsStrictlyIncreasing ==
  \A i, j \in DOMAIN issued : i < j => issued[i] < issued[j]

\* C4 witness: ids were issued after a cancelTask, a cancelAllTasks, a normal
\* completion and a throwing callback.
C4_Witness ==
  /\ Len(issued) = MaxTasks
  /\ consoleErrors > 0
  /\ \E k \in DOMAIN spy : spy[k].killedAt # "none" /\ k < issued[Len(issued)]

\* C5: cancelTask is idempotent, and a no-op for ids that completed, were
\* cancelled or were never issued: registry, runningTasks and every other
\* outstanding task are left as they were.
C5_CancelTaskIdempotent ==
  \A id \in 1..(MaxTasks + 1) :
    /\ id \notin DOMAIN taskKillers => CancelTask(Cur, id) = Cur
    /\ CancelTask(CancelTask(Cur, id), id) = CancelTask(Cur, id)

\* C5 witness: one id completed, one was cancelled, one was never issued, and
\* other tasks are outstanding.
C5_Witness ==
  /\ \E k \in DOMAIN spy : Called(k) /\ k \notin DOMAIN taskKillers
  /\ \E k \in DOMAIN spy : spy[k].cancelled /\ spy[k].killedAt # "none"
  /\ RunningTasks(Cur) > 0

\* C6: a callback given to scheduleAnimationFrameAfterNext is invoked at most
\* once, never before two frames have started since it was scheduled, and until
\* it has run (unless cancelled) it accounts for exactly one registry entry,
\* afterwards for none.
C6_AfterNextTwoFrames ==
  \A k \in DOMAIN spy :
    spy[k].kind = "afterNext" =>
      /\ spy[k].calls <= 1
      /\ Called(k) => spy[k].frames = 2
      /\ (~Called(k) /\ spy[k].killedAt = "none") => Cardinality(EntriesOf(k)) = 1
      /\ Called(k) => EntriesOf(k) = {}

\* C6 witness: the callback has run, after its second frame, and left nothing.
C6_Witness ==
  \E k \in DOMAIN spy :
    /\ spy[k].kind = "afterNext" /\ spy[k].calls = 1 /\ spy[k].frames = 2
    /\ RunningTasks(Cur) = 0

(* ------------------------------------------------------------ claims C7..C9 *)

RECURSIVE Dedupe(_)
\* a sequence with consecutive duplicates removed
Dedupe(q) ==
  IF Len(q) <= 1 THEN q
  ELSE LET r == Dedupe(SubSeq(q, 1, Len(q) - 1))
       IN  IF q[Len(q)] = q[Len(q) - 1] THEN r ELSE Append(r, q[Len(q)])

\* the step in which trackDOMContentChanges runs for tracker t
TrackStep(t) == ~trk[t].started /\ trk'[t].started

\* C7: trackDOMContentChanges evaluates getContent exactly once and invokes
\* onContentChange exactly once, with that value, before it returns, whatever
\* the value is.
C7_InitialContentDelivered ==
  [][\A t \in Trackers :
       TrackStep(t) =>
         /\ Len(trkLog'[t].evals) = 1
         /\ trkLog'[t].delivered = trkLog'[t].evals]_vars

\* C7 for every value but undefined (the part of C7 the code does satisfy).
C7_DefinedInitialContentDelivered ==
  [][\A t \in Trackers :
       TrackStep(t) =>
         /\ Len(trkLog'[t].evals) = 1
         /\ trkLog'[t].evals[1] # Undefined => trkLog'[t].delivered = trkLog'[t].evals]_vars

\* C8: every poll of an active tracker evaluates getContent once and delivers
\* the value iff it differs from the last delivered one, so the delivered
\* sequence is the polled sequence with consecutive duplicates removed.
C8_DeliveredIsDedupedPolls ==
  /\ [](\A t \in Trackers : trkLog[t].delivered = Dedupe(trkLog[t].evals))
  /\ [][\A t \in Trackers :
          (trk[t].started /\ trkLog'[t].evals # trkLog[t].evals) =>
            /\ Len(trkLog'[t].evals) = Len(trkLog[t].evals) + 1
            /\ SubSeq(trkLog'[t].evals, 1, Len(trkLog[t].evals)) = trkLog[t].evals
            /\ (trkLog'[t].delivered # trkLog[t].delivered) <=>
                 (\/ trkLog[t].delivered = <<>>
                  \/ trkLog[t].delivered[Len(trkLog[t].delivered)]
                       # trkLog'[t].evals[Len(trkLog'[t].evals)])]_vars

\* C8 for trackers whose first polled value is not undefined (the part of C8
\* the code does satisfy).
C8_DedupedWhenFirstDefined ==
  \A t \in Trackers :
    (trkLog[t].evals # <<>> /\ trkLog[t].evals[1] # Undefined) =>
      trkLog[t].delivered = Dedupe(trkLog[t].evals)

\* C9: after untrack() getContent is never evaluated and onContentChange never
\* invoked again; untrack() with zero frames elapsed leaves exactly one
\* delivered value in total; a further untrack() changes nothing of the tracker.
C9_UntrackStopsTracker ==
  /\ [][\A t \in Trackers : trkLog[t].untracked => trkLog'[t] = trkLog[t]]_vars
  /\ [](\A t \in Trackers :
          (trkLog[t].untracked /\ Len(trkLog[t].evals) = 1) => Len(trkLog[t].delivered) = 1)
  /\ [](\A t \in Trackers :
          trkLog[t].untracked =>
            LET W == Untrack(TrackerWorld(Cur, t))
            IN  W.trk = trk[t] /\ W.log = trkLog[t])

\* C9 without the count of delivered values (the part of C9 the code does
\* satisfy): silence after untrack(), and untrack() again changes nothing.
C9_SilentAfterUntrack ==
  /\ [][\A t \in Trackers : trkLog[t].untracked => trkLog'[t] = trkLog[t]]_vars
  /\ [](\A t \in Trackers :
          trkLog[t].untracked =>
            LET W == Untrack(TrackerWorld(Cur, t))
            IN  W.trk = trk[t] /\ W.log = trkLog[t])


(* ----------------------------------------------------------------- claim C10 *)

\* the triggers whose execute has been invoked and whose completion wait has
\* not ended
Waiting == {k \in DOMAIN closures : InWait(k)}

\* C10: triggers are strictly serialized in queue order: the execute of trigger
\* k+1 is invoked only after the transition-completion wait of trigger k has
\* finished, each execute is invoked at most once, and no two triggers are ever
\* between their execute and the end of their wait at the same time.
C10_TriggersSerialized ==
  /\ execLog = [i \in 1..Len(execLog) |-> i]
  /\ \A i \in 2..Len(execLog) : closures[i - 1].pc = "fulfilled"
  /\ Cardinality(Waiting) <= 1

\* the second trigger is in its wait after the first one's wait has finished
C10_Witness ==
  /\ Len(execLog) = 2
  /\ closures[1].pc = "fulfilled"
  /\ Waiting = {2}


(* ----------------------------------------------------------------- claim C11 *)

\* the step in which analyseTransitionActivity() is called
AnalysisStarts == analysis = "idle" /\ analysis' = "capturing"

\* C11: the snapshot list is append-only and chronologically ordered: snapshot
\* 0 is the container's initial markup, recorded before the first trigger's
\* execute is invoked; recordedAt never decreases along the list; an existing
\* snapshot is never modified or removed.
C11_SnapshotsAppendOnly ==
  /\ [][/\ Len(capturedSnapshots') >= Len(capturedSnapshots)
        /\ SubSeq(capturedSnapshots', 1, Len(capturedSnapshots)) = capturedSnapshots
        /\ AnalysisStarts =>
             /\ execLog = <<>>
             /\ capturedSnapshots' = <<[content |-> FormatHTML(innerHTML), recordedAt |-> Now]>>
        /\ execLog' # execLog => capturedSnapshots # <<>>]_vars
  /\ [](\A i \in 1..(Len(capturedSnapshots) - 1) :
          capturedSnapshots[i].recordedAt <= capturedSnapshots[i + 1].recordedAt)

\* three snapshots taken at three different times, a trigger having executed
C11_Witness ==
  /\ Len(capturedSnapshots) >= 3
  /\ execLog # <<>>
  /\ capturedSnapshots[1].recordedAt < capturedSnapshots[2].recordedAt
  /\ capturedSnapshots[2].recordedAt < capturedSnapshots[3].recordedAt


(* ----------------------------------------------------------------- claim C12 *)

\* C12: for every queue of N triggers (follow-ups included) and every sequence
\* of captured snapshots, an analysis that returns a report has performed
\* exactly N duration assertions.
C12_OneAssertionPerTrigger ==
  outcome.status = "resolved" => Len(outcome.asserted) = Len(transitonTriggers)

\* What the code does guarantee: a returned report never rests on more
\* assertions than there are triggers.
C12_AtMostOneAssertionPerTrigger ==
  outcome.status = "resolved" => Len(outcome.asserted) <= Len(transitonTriggers)


(* ------------------------------------------------------------ claims C13..C15 *)

\* the rejection "Transition #k failed to take at least <d>ms"
FailedToTakeAtLeast(k, d) ==
  [name |-> "failedToTakeAtLeast", transitionIndex |-> k,
   expectedDuration |-> [defined |-> TRUE, value |-> d]]

\* milliseconds between the start snapshot and the boundary snapshot of the
\* assertion a, read from the snapshot list
Elapsed(a) ==
  capturedSnapshots[a.transitionEndIndex + 1].recordedAt
    - capturedSnapshots[a.transitionStartIndex + 1].recordedAt

\* the j-th duration assertion of the settled analysis passed
Passed(j) == ~(outcome.status = "rejected" /\ j = Len(outcome.asserted))

C13_UpperEdgeWitness ==
  \E j \in DOMAIN outcome.asserted :
    LET a == outcome.asserted[j]
    IN  /\ a.expectedDuration.defined
        /\ Elapsed(a) = 2 * a.expectedDuration.value + 20
        /\ Passed(j)

\* the analysis has one trigger, expecting 75 ms, and its first cycle is measured
FirstCycleOf75 ==
  /\ outcome.status # "pending"
  /\ Len(transitonTriggers) = 1
  /\ transitonTriggers[1].expectedDuration = 75
  /\ outcome.asserted # <<>>

\* C14: with a single trigger whose expected duration is 75 ms, an analysis
\* whose first cycle measured exactly 75 ms passes, and one whose first cycle
\* measured 74 ms fails with "Transition #1 failed to take at least 75ms".
C14_SeventyFourFails ==
  FirstCycleOf75 =>
    /\ Elapsed(outcome.asserted[1]) = 75 => Passed(1)
    /\ Elapsed(outcome.asserted[1]) = 74 =>
         /\ outcome.status = "rejected"
         /\ outcome.error = FailedToTakeAtLeast(1, 75)

\* What the code does at the two values: both are accepted.
C14_SeventyFourPasses ==
  FirstCycleOf75 => (Elapsed(outcome.asserted[1]) \in {74, 75} => Passed(1))

\* C15: when a measured duration falls outside the acceptance window,
\* analyseTransitionActivity rejects with "Transition #k failed to take at
\* least <d>ms", k the 1-based index of the failing transition and d its
\* expected duration; no report is returned and no later transition is
\* asserted.
C15_DurationErrorIsLabelled ==
  \A k \in DOMAIN outcome.asserted :
    LET a == outcome.asserted[k]
        d == a.expectedDuration.value
    IN  (a.expectedDuration.defined /\ (Elapsed(a) < d - 20 \/ Elapsed(a) > 2 * d + 20)) =>
          /\ outcome.status = "rejected"
          /\ outcome.error = FailedToTakeAtLeast(k, transitonTriggers[k].expectedDuration)
          /\ outcome.report = <<>>
          /\ Len(outcome.asserted) = k

\* the first of two transitions failed while the snapshots of a second cycle
\* were there to be asserted
C15_Witness ==
  /\ outcome.status = "rejected"
  /\ outcome.error = FailedToTakeAtLeast(1, 95)
  /\ Len(transitonTriggers) = 2
  /\ transitonTriggers[2].expectedDuration = 75
  /\ Len(capturedSnapshots) = 6
  /\ SnapshotInEnterTransition(capturedSnapshots, 3)

\* the second transition failed, with its own expected duration
C15_SecondWitness ==
  /\ outcome.status = "rejected"
  /\ outcome.error = FailedToTakeAtLeast(2, 75)
  /\ transitonTriggers[1].expectedDuration = 95


(* ----------------------------------------------------------------- claim C16 *)

\* the triggers whose wait found no transitioning element, or that never ran
\* because an earlier one did
RejectedTriggers == {k \in DOMAIN closures : closures[k].pc = "rejected"}

\* C16: if, after the committed-frame wait that follows a trigger's execute, no
\* element of the container carries a duration class with a non-zero computed
\* transition duration, analyseTransitionActivity rejects with the 'no
\* transitioning elements' error; no later trigger's execute is invoked, no
\* duration assertion is performed and no report is returned.
C16_NoTransitioningElementsRejects ==
  /\ [][\A k \in DOMAIN closures :
          (closures[k].pc = "frame1" /\ closures'[k].pc # "frame1") =>
            (TransitioningElements(innerHTML) = {} <=> closures'[k].pc = "rejected")]_vars
  /\ [](RejectedTriggers # {} =>
          /\ \A k \in RejectedTriggers : \A j \in DOMAIN execLog : execLog[j] <= k
          /\ outcome.status # "resolved"
          /\ outcome.report = <<>>
          /\ outcome.asserted = <<>>
          /\ microtasks = <<>> =>
               /\ outcome.status = "rejected"
               /\ outcome.error.name = "noTransitioningElements")

\* the first of two triggers found nothing transitioning: the analysis
\* rejected and the second trigger was not executed
C16_Witness ==
  /\ Len(transitonTriggers) = 2
  /\ execLog = <<1>>
  /\ outcome.status = "rejected"
  /\ outcome.error.name = "noTransitioningElements"


(* ----------------------------------------------------------------- claim C17 *)

\* C17: addTransitionTrigger and expectFollowUpTransition each append exactly
\* one trigger at the end of the queue, leave all earlier triggers and their
\* order unchanged, and return the same analyser; a follow-up trigger's execute
\* does not mutate the container.
C17_TriggersAppended ==
  [][/\ (analysis = "idle" /\ analysis' = "idle") =>
          /\ Len(transitonTriggers') = Len(transitonTriggers) + 1
          /\ SubSeq(transitonTriggers', 1, Len(transitonTriggers)) = transitonTriggers
          /\ chained' = "this"
     /\ ~(analysis = "idle" /\ analysis' = "idle") => transitonTriggers' = transitonTriggers
     /\ \A k \in DOMAIN transitonTriggers :
          (execLog' = Append(execLog, k) /\ transitonTriggers[k].execute = "noop") =>
            innerHTML' = innerHTML]_vars

\* a follow-up queued behind a caller's trigger has executed
C17_Witness ==
  /\ Len(transitonTriggers) = 2
  /\ transitonTriggers[1].execute = "act"
  /\ transitonTriggers[2].execute = "noop"
  /\ execLog = <<1, 2>>


(* ----------------------------------------------------------------- claim C18 *)

\* C18: the report contains exactly one "Render i:" block for each snapshot
\* index i from 1 to (number of snapshots - 1), in ascending order, each
\* carrying the diff between snapshot i-1 and snapshot i whether or not i is a
\* stage boundary; snapshot 0 has no block, and with a single snapshot the
\* report is empty.
C18_OneRenderBlockPerChange ==
  outcome.status = "resolved" =>
    /\ Len(outcome.report) = Len(capturedSnapshots) - 1
    /\ \A i \in DOMAIN outcome.report :
         /\ outcome.report[i].render = i
         /\ outcome.report[i].diff = [previous |-> capturedSnapshots[i].content,
                                      current |-> capturedSnapshots[i + 1].content]

\* a report of five blocks, the third a stage boundary, with a change that the
\* first snapshot does not share
C18_Witness ==
  /\ outcome.status = "resolved"
  /\ Len(outcome.report) = 5
  /\ outcome.report[3].tookAtLeast # <<>>
  /\ outcome.report[2].tookAtLeast = <<>>
  /\ capturedSnapshots[3].content # capturedSnapshots[1].content

\* the report of a single snapshot
C18_EmptyWitness ==
  /\ outcome.status = "resolved"
  /\ Len(capturedSnapshots) = 1
  /\ outcome.report = <<>>


(* ----------------------------------------------------------------- claim C19 *)

\* the triggers whose wait holds a transitionend listener that has not resolved
AwaitingEvents == {k \in DOMAIN closures : closures[k].pc = "events" /\ closures[k].awaiting # {}}

\* C19: there is no timeout on the analysis: if a sampled transitioning element
\* never emits a completion event targeted at itself, analyseTransitionActivity
\* never resolves and never rejects, and the tracker is never stopped.
\* Stated step by step: an awaited element stops being awaited only in a step
\* that dispatches an event targeted at it, never by time passing; a wait with
\* an awaited element does not move on; while there is one the analysis is
\* pending and the tracker runs; no timer is ever set.
C19_NoTimeout ==
  /\ [][\A k \in DOMAIN closures :
          /\ \A l \in closures[k].awaiting :
               l \notin closures'[k].awaiting => (dispatched' = l /\ frameNo' = frameNo)
          /\ k \in AwaitingEvents => closures'[k].pc = "events"]_vars
  /\ [](AwaitingEvents # {} =>
          /\ analysis = "capturing"
          /\ outcome.status = "pending"
          /\ ~trk[DomTracker].stopTracking)
  /\ [](timers = {})

\* every frame has passed and an event of the inner element has bubbled
\* through the outer one, which is still awaited
C19_Witness ==
  /\ frameNo = MaxFrames
  /\ dispatched = "inner"
  /\ \E k \in AwaitingEvents : closures[k].awaiting = {"outer"}
  /\ analysis = "capturing"


(* ----------------------------------------------------------------- claim C20 *)

\* no pending platform request will call notifyIfContentChange of tracker t
Quiescent(t) == \A r \in AllRequests(Cur) : r.cb # PollCallback(t)

\* a step that empties the registry without creating a task: cancelAllTasks()
\* (or the cancellation of the only task there is)
RegistryEmptied == taskKillers # EmptyMap /\ taskKillers' = EmptyMap /\ nextTaskId' = nextTaskId

\* C20: cancelAllTasks is a sufficient teardown for a tracker that was never
\* untracked: after the call the tracker performs no further getContent
\* evaluations, delivers nothing more and schedules no further task, so
\* runningTasks stays 0.
C20_CancelAllTasksTearsDown ==
  /\ [][\A t \in Trackers :
          /\ (trk[t].started /\ RegistryEmptied) => (Quiescent(t))'
          /\ (trk[t].started /\ Quiescent(t)) =>
               /\ (Quiescent(t))'
               /\ trkLog'[t].evals = trkLog[t].evals
               /\ trkLog'[t].delivered = trkLog[t].delivered]_vars
  /\ []((\A t \in Trackers : Quiescent(t)) => RunningTasks(Cur) = 0)

\* tracker A was torn down without untrack(); tracker B, started afterwards,
\* has been polled on later frames
C20_Witness ==
  /\ trk["A"].started /\ ~trk["A"].stopTracking /\ Quiescent("A")
  /\ trkLog["A"].evals # <<>>
  /\ trk["B"].started /\ ~Quiescent("B")
  /\ Len(trkLog["B"].evals) >= 2

(* --------------------------------------------------------------- claim C21 *)

\* formatted markup that shows the class name marker
Showing(marker) == {FormatHTML(h) : h \in {m \in Markup \cup MoveMarkup : marker \in ClassNames(m)}}

\* the renders between a stage boundary on a snapshot of this content and the next
StageGap(content) ==
  IF content \in Showing("enter-active") THEN 2
  ELSE IF content \in Showing("move-active") THEN 1
  ELSE 3

\* the render at which the j-th duration assertion of the settled analysis was made
BoundaryAt(j) == outcome.asserted[j].transitionEndIndex

\* the render at which the boundary after the j-th one falls (j = 0: the first)
BoundaryAfter(j) ==
  IF j = 0 THEN TRANSITION_STAGES
  ELSE BoundaryAt(j) + StageGap(capturedSnapshots[BoundaryAt(j) + 1].content)

C21_MoveWitness ==
  /\ Len(outcome.asserted) = 3
  /\ BoundaryAt(1) = 3 /\ BoundaryAt(2) = 4 /\ BoundaryAt(3) = 5
  /\ capturedSnapshots[3].content \in Showing("enter-active")

\* a report of five renders with one boundary: snapshot 3 shows no marker,
\* snapshots 4 and 5 after it show the enter marker
C21_PlainWitness ==
  /\ outcome.status = "resolved"
  /\ Len(outcome.report) = 5
  /\ Len(transitonTriggers) = 2
  /\ Len(outcome.asserted) = 1
  /\ capturedSnapshots[5].content \in Showing("enter-active")
  /\ capturedSnapshots[6].content \in Showing("enter-active")

(* --------------------------------------------------------------- claim C22 *)

\* the duration queued with the k-th trigger, undefined beyond the queue
QueuedDuration(k) ==
  IF k \in DOMAIN transitonTriggers THEN Defined(transitonTriggers[k].expectedDuration)
  ELSE NoDuration

\* C22: the expected durations are consumed first in, first out: the k-th
\* duration assertion of an analysis is made for transition k against the
\* duration queued with the k-th trigger, and the k-th boundary block of a
\* returned report carries that duration; no duration is skipped or used twice.
C22_DurationsFirstInFirstOut ==
  outcome.status \in {"resolved", "rejected"} =>
    \A k \in DOMAIN outcome.asserted :
      /\ outcome.asserted[k].transitionIndex = k
      /\ outcome.asserted[k].expectedDuration = QueuedDuration(k)
      /\ outcome.status = "resolved" =>
           outcome.report[BoundaryAt(k)].tookAtLeast = <<QueuedDuration(k)>>

\* a report with two boundaries for triggers queued with 95 ms, then 75 ms
C22_Witness ==
  /\ outcome.status = "resolved"
  /\ Len(outcome.asserted) = 2
  /\ transitonTriggers[1].expectedDuration = 95
  /\ transitonTriggers[2].expectedDuration = 75

(* --------------------------------------------------------------- claim C23 *)

\* the successive positions of a reduce closure
PhaseOrder ==
  {<<"awaitPrevious", "frame1">>, <<"awaitPrevious", "rejected">>,
   <<"frame1", "events">>, <<"frame1", "rejected">>,
   <<"events", "frame2">>, <<"frame2", "fulfilled">>}

\* closure k goes from position a to position b in this step
Moves(k, a, b) == closures[k].pc = a /\ closures'[k].pc = b

\* C23: the wait of a trigger has three phases in this order. After execute,
\* two frames pass (the two successive frame callbacks of waitForNextFrame)
\* before the transitioning elements are sampled; listeners are awaited only
\* once the elements are sampled; after the last awaited event two more frames
\* pass before the wait ends, and only then may the next trigger execute.
C23_WaitPhases ==
  /\ [][\A k \in DOMAIN closures \cap DOMAIN closures' :
          /\ closures'[k].pc # closures[k].pc =>
                <<closures[k].pc, closures'[k].pc>> \in PhaseOrder
          /\ Moves(k, "awaitPrevious", "frame1") => execLog' = Append(execLog, k)
          /\ Moves(k, "frame1", "events") \/ Moves(k, "frame1", "rejected") =>
                frameNo >= closures[k].since + 2
          /\ Moves(k, "events", "frame2") =>
                closures[k].awaiting = {} /\ dispatched \in closures[k].sampled
          /\ Moves(k, "frame2", "fulfilled") => frameNo >= closures[k].since + 2
          /\ execLog' = Append(execLog, k + 1) => closures[k].pc = "fulfilled"]_vars
  /\ [](\A k \in DOMAIN closures :
          /\ closures[k].awaiting # {} => closures[k].pc = "events"
          /\ closures[k].sampled # {} => closures[k].pc \in {"events", "frame2", "fulfilled"})

\* the first trigger's wait went through its three phases and the second
\* trigger has executed
C23_Witness ==
  /\ Len(closures) = 2
  /\ closures[1].pc = "fulfilled"
  /\ closures[1].sampled = {"outer", "inner"}
  /\ closures[2].pc = "frame1"
  /\ execLog = <<1, 2>>

(* --------------------------------------------------------------- claim C24 *)

\* the closures whose event phase is over
PastEvents == {k \in DOMAIN closures : closures[k].pc \in {"frame2", "fulfilled"}}

\* C24: the event phase is a join over the sampled elements: it is over only
\* when every sampled element has had an event targeted at itself, in any
\* order; while it lasts, the listeners still attached are those of the
\* sampled elements that have not had their own event yet, so an event bubbling
\* up from a descendant does not count for the ancestor, and a listener is
\* removed by the first event targeted at its element.
C24_FanInJoin ==
  /\ [](\A k \in PastEvents : closures[k].sampled # {} /\ closures[k].heard = closures[k].sampled)
  /\ [](\A k \in AwaitingEvents : closures[k].awaiting = closures[k].sampled \ closures[k].heard)
  /\ [][\A k \in DOMAIN closures \cap DOMAIN closures' :
          \A l \in closures'[k].heard \ closures[k].heard :
            /\ dispatched' = l
            /\ l \in closures[k].awaiting
            /\ l \notin closures'[k].awaiting]_vars

\* the event just dispatched was the last one closure k awaited
JoinCompleted(k) ==
  /\ closures[k].pc = "events"
  /\ closures[k].awaiting = {}
  /\ closures[k].sampled = {"outer", "inner"}

\* the event of the inner element came first and bubbled through the outer
\* one, whose listener stayed attached until its own event completed the join
C24_Witness == \E k \in DOMAIN closures : JoinCompleted(k) /\ dispatched = "outer"

\* the other order: the outer element's event came first
C24_OuterFirstWitness == \E k \in DOMAIN closures : JoinCompleted(k) /\ dispatched = "inner"

\* the inner element's event was dispatched, the outer listener is still awaited
C24_BubbleWitness ==
  \E k \in AwaitingEvents :
    /\ closures[k].heard = {"inner"}
    /\ closures[k].awaiting = {"outer"}

(* --------------------------------------------------------------- claim C25 *)

\* the analyser's tracker was untracked
DomUntracked == trk[DomTracker].stopTracking

\* getTransitionActivityReport() is about to run, or has run
ReportStarted ==
  \/ analysis \in {"captured", "resolved"}
  \/ outcome.status = "rejected" /\ outcome.error.name = "failedToTakeAtLeast"

\* C25: on the success path untrack is invoked after the wait of the last
\* trigger has ended and before the report is generated, and no snapshot is
\* appended while or after the report is built: the tracker is stopped and
\* has no poll pending from then on.
C25_UntrackBeforeReport ==
  /\ [][~DomUntracked /\ DomUntracked' =>
          /\ \A k \in DOMAIN closures : closures[k].pc = "fulfilled"
          /\ outcome = Pending /\ outcome' = Pending
          /\ ~ReportStarted /\ ReportStarted']_vars
  /\ [](ReportStarted => DomUntracked /\ Quiescent(DomTracker))
  /\ [][ReportStarted => capturedSnapshots' = capturedSnapshots]_vars

\* a report was returned for one trigger or more, and the container had
\* changed since the last poll when untrack cancelled the pending one
C25_Witness ==
  /\ outcome.status = "resolved"
  /\ closures # <<>>
  /\ DomUntracked
  /\ trk[DomTracker].lastContentValue # innerHTML

(* --------------------------------------------------------------- claim C26 *)

\* tracker t was started and not untracked
Active(t) == trk[t].started /\ ~trk[t].stopTracking

\* the pending platform requests that will call notifyIfContentChange of t
PollsOf(t) == {r \in AllRequests(Cur) : r.cb = PollCallback(t)}

\* exactly one poll of t is outstanding: the task whose id t holds
OnePoll(t) ==
  /\ Cardinality(PollsOf(t)) = 1
  /\ \A r \in PollsOf(t) : r.task = trk[t].taskId /\ r.task \in DOMAIN taskKillers

\* C26: the poll loop is self-sustaining: between frame callbacks an active
\* tracker has exactly one poll task outstanding, from the call that starts
\* it on and after every poll, whether or not the poll found a change, as
\* long as the registry is not emptied by cancelAllTasks.
C26_OnePollOutstanding ==
  [][\A t \in Trackers :
       Active(t)' /\ (Active(t) => OnePoll(t)) /\ ~RegistryEmptied => OnePoll(t)']_vars

\* an active tracker after two polls that returned what the call before returned
C26_Witness ==
  \E t \in Trackers :
    /\ Active(t) /\ OnePoll(t)
    /\ Len(trkLog[t].evals) = 3
    /\ trkLog[t].evals[2] = trkLog[t].evals[1]
    /\ trkLog[t].evals[3] = trkLog[t].evals[1]

\* an active tracker after a poll that found a change
C26_ChangeWitness ==
  \E t \in Trackers :
    /\ Active(t) /\ OnePoll(t)
    /\ Len(trkLog[t].evals) = 2
    /\ trkLog[t].evals[2] # trkLog[t].evals[1]
    /\ Len(trkLog[t].delivered) = 2

(* --------------------------------------------------------------- claim C27 *)

\* the task ids whose platform frame or timer callback is still pending
PendingTaskIds == {r.task : r \in AllRequests(Cur)}

\* C27: between callbacks the registry holds exactly the tasks that were
\* scheduled and have neither finished nor been cancelled: a task id is in
\* the registry if and only if its platform frame or timer callback is still
\* pending, one callback per id, and runningTasks is their number.
C27_RegistryMatchesPending ==
  /\ DOMAIN taskKillers = PendingTaskIds
  /\ DOMAIN taskKillers \subseteq {issued[i] : i \in DOMAIN issued}
  /\ RunningTasks(Cur) = Cardinality(AllRequests(Cur))

\* one task is left after a callback ran to its end, one threw and one task
\* was cancelled
C27_Witness ==
  /\ RunningTasks(Cur) = 1
  /\ consoleErrors > 0
  /\ \E k \in DOMAIN spy : spy[k].killedAt # "none"
  /\ \E k \in DOMAIN spy : Called(k)

(* --------------------------------------------------------------- claim C28 *)

\* the duration assertions made for boundaries beyond the queued triggers
SurplusAssertions == {j \in DOMAIN outcome.asserted : j > Len(transitonTriggers)}

\* the rejection "Transition #k failed to take at least undefinedms"
FailedWithoutDuration(k) ==
  [name |-> "failedToTakeAtLeast", transitionIndex |-> k, expectedDuration |-> NoDuration]

\* C28: when the snapshots yield more stage boundaries than there are queued
\* triggers, the analysis rejects at the first surplus boundary with the
\* duration error of an undefined duration; a report is returned only if
\* every boundary of the snapshots had a trigger's duration.
C28_SurplusBoundaryRejects ==
  /\ \A j \in SurplusAssertions :
       /\ j = Len(transitonTriggers) + 1
       /\ outcome.status = "rejected"
       /\ outcome.error = FailedWithoutDuration(j)
  /\ outcome.status = "resolved" =>
       /\ Len(outcome.asserted) <= Len(transitonTriggers)
       /\ BoundaryAfter(Len(outcome.asserted)) > Len(capturedSnapshots) - 1

\* two triggers whose transitions passed, and a third boundary that rejects
C28_Witness ==
  /\ Len(transitonTriggers) = 2
  /\ outcome.status = "rejected"
  /\ SurplusAssertions = {3}

\* no trigger at all and four snapshots: the first boundary rejects
C28_NoTriggerWitness ==
  /\ transitonTriggers = <<>>
  /\ outcome.status = "rejected"
  /\ SurplusAssertions = {1}

(* --------------------------------------------------------------- claim C30 *)

\* C30: changes are detected on the formatted markup, so that two successive
\* polls whose raw markup differs and whose formatted markup is the same
\* produce no snapshot: no two consecutive snapshots have the same content.
\* (Violated: the tracker compares the raw markup, formatHTML runs afterwards.)
C30_NoEqualConsecutiveSnapshots ==
  \A i \in DOMAIN capturedSnapshots :
    i < Len(capturedSnapshots) => capturedSnapshots[i + 1].content # capturedSnapshots[i].content

(* --------------------------------------------------------------- claim C29 *)

\* analyseTransitionActivity() was called
Started == analysis # "none" /\ analysis # "idle"

\* its promise was resolved or rejected
Settled == outcome.status \in {"resolved", "rejected"}

\* C29: if frame callbacks keep firing and every sampled element eventually
\* emits its own completion event (the fairness of SpecAnalyserFair), then
\* analyseTransitionActivity with any queue of triggers eventually resolves
\* or rejects.
C29_AnalysisSettles == Started ~> Settled

\* an analysis of two triggers settled after both waits sampled two elements
C29_Witness ==
  /\ Settled
  /\ Len(closures) = 2
  /\ \A k \in DOMAIN closures : closures[k].heard = {"outer", "inner"}
  /\ frameNo = 8

(* --------------------------------------------------------------- claim C31 *)

\* what the earlier analyser's report algorithm does with the same snapshots
\* and the same queue
Earlier == EarlierGetTransitionActivityReport(capturedSnapshots, transitonTriggers)

\* no snapshot shows the move marker
NoMoveMarker ==
  \A i \in DOMAIN capturedSnapshots : ~Includes(capturedSnapshots[i].content, "move-active")

\* the boundary render and the duration consumed at it
Boundary(a) == <<a.transitionEndIndex, a.expectedDuration>>

C32_FormatHTMLIdempotent ==
  \A i \in DOMAIN capturedSnapshots :
    FormatHTMLComputed(capturedSnapshots[i].content) = capturedSnapshots[i].content

\* formatHTML gives the strings the HTMLFormatter suite expects
C32_SuiteHolds ==
  /\ FormatHTMLComputed("<div><span>Hello!</span></div>")
       = "<div>\n  <span>\n    Hello!\n  </span>\n</div>"
  /\ FormatHTMLComputed("<div class=\"enter enter-from\" scoped><span>Hello!</span></div>")
       = "<div\n  class=\"enter enter-from\"\n  scoped\n>\n  <span>\n    Hello!\n  </span>\n</div>"
  /\ FormatHTMLComputed("<div class='enter enter-from' scoped><span>Hello!</span></div>")
       = "<div\n  class=\"enter enter-from\"\n  scoped\n>\n  <span>\n    Hello!\n  </span>\n</div>"
  /\ \A h \in Markup \cup MoveMarkup : FormatHTML(h) = FormatHTMLComputed(h)

\* what does hold: formatting is stable from the second application on
C32_StableFromSecond ==
  \A i \in DOMAIN capturedSnapshots :
    LET twice == FormatHTMLComputed(capturedSnapshots[i].content)
    IN  FormatHTMLComputed(twice) = twice

(* --------------------------------------------------------------- claim C33 *)

\* the promise of analyseTransitionActivity was rejected by the sampling
RejectedBySampling ==
  outcome.status = "rejected" /\ outcome.error.name = "noTransitioningElements"

\* C33: whenever analyseTransitionActivity has settled, resolved or
\* rejected, the tracker has been stopped and the scheduler registry holds
\* none of the analysis's polls or waits.
\* (Violated on rejection by the sampling: untrack() is the statement after
\* the rejected await, and is skipped.)
C33_SettledLeavesNothing ==
  Settled => DomUntracked /\ DOMAIN taskKillers = {}

\* what does hold: it holds of every settlement but the rejection by the
\* sampling
C33_ExceptSampling ==
  Settled /\ ~RejectedBySampling => DomUntracked /\ DOMAIN taskKillers = {}

\* an analysis with triggers resolved
C33_ResolvedWitness ==
  /\ outcome.status = "resolved"
  /\ transitonTriggers # <<>>
  /\ DomUntracked
  /\ DOMAIN taskKillers = {}

(* --------------------------------------------------------------- claim C34 *)

\* untrack() of t has been called
Untracked(t) == trk[t].started /\ trk[t].stopTracking

\* C34: once untrack() has returned the tracker owns no outstanding task in
\* the scheduler registry, wherever untrack was called from, the inside of
\* onContentChange during a frame poll included.
\* (Violated: notifyIfContentChange schedules the next poll after
\* onContentChange has returned, without looking at the stop flag again.)
C34_NoTaskAfterUntrack ==
  \A t \in Trackers : Untracked(t) => PollsOf(t) = {}

\* what does hold: untrack() called between callbacks leaves no poll of
\* the tracker, if none was left over by an untrack() inside onContentChange
C34_NoTaskAfterOuterUntrack ==
  [][\A t \in Trackers :
       Active(t) /\ Untracked(t)' /\ trkLog'[t].evals = trkLog[t].evals => PollsOf(t)' = {}]_vars

\* and the poll left over by an untrack() inside onContentChange is the last:
\* it evaluates nothing and schedules nothing
C34_LeftOverPollIsLast ==
  [][\A t \in Trackers :
       Untracked(t) => /\ trkLog'[t] = trkLog[t]
                       /\ PollsOf(t)' \subseteq PollsOf(t)]_vars

(* --------------------------------------------------------------- claim C35 *)

\* the step is a frame poll of t that an exception left
PollThrows(t) ==
  /\ frameBatch # <<>>
  /\ Head(frameBatch).cb = PollCallback(t)
  /\ frameBatch' = Tail(frameBatch)
  /\ consoleErrors' = consoleErrors + 1

\* onContentChange was invoked in the step
Delivers(t) == Len(trkLog'[t].delivered) = Len(trkLog[t].delivered) + 1

\* t was started and no pending request will call its notifyIfContentChange
Stranded(t) == trk[t].started /\ PollsOf(t) = {}

\* C35: if getContent or onContentChange throws during a frame poll, the
\* scheduler reports the error and does not propagate it, and the poll is
\* not rescheduled: the tracker holds no outstanding task and never
\* evaluates getContent again; a value whose delivery threw is recorded as
\* last seen and is never delivered again.
C35_ThrowingPollEndsTracking ==
  [][\A t \in Trackers :
       /\ PollThrows(t) =>
            /\ uncaught' = uncaught
            /\ Stranded(t)'
            /\ Head(frameBatch).task \notin DOMAIN taskKillers'
            /\ Delivers(t) =>
                 trk'[t].lastContentValue = trkLog'[t].delivered[Len(trkLog'[t].delivered)]
       /\ Stranded(t) =>
            /\ Stranded(t)'
            /\ trkLog'[t].evals = trkLog[t].evals
            /\ trkLog'[t].delivered = trkLog[t].delivered]_vars

\* getContent of a tracker threw in a poll, and frames went on firing
C35_Witness ==
  \E t \in Trackers :
    /\ Stranded(t) /\ ~trk[t].stopTracking
    /\ consoleErrors = 1
    /\ Len(trkLog[t].evals) = 2 /\ trkLog[t].evals[2] = Thrown
    /\ frameBatch # <<>>

\* onContentChange of a tracker threw in a poll: the value is the last seen
C35_DeliveryWitness ==
  \E t \in Trackers :
    /\ Stranded(t) /\ ~trk[t].stopTracking
    /\ consoleErrors = 1
    /\ Len(trkLog[t].delivered) = 2
    /\ trk[t].lastContentValue = trkLog[t].delivered[2]
    /\ frameBatch # <<>>

(* --------------------------------------------------------------- claim C36 *)

\* the wait of closure k has not sampled yet
BeforeSampling(k) == closures[k].pc \in {"awaitPrevious", "frame1"}

\* C36: a completion event emitted before the sampling, during the first
\* two-frame wait, never satisfies the wait: before the sampling no element
\* is awaited or counted, the sampling awaits every element it finds,
\* whatever was emitted before, and an awaited element stops being awaited
\* only in a later step that dispatches its own event.
C36_EarlyEventDoesNotCount ==
  /\ [](\A k \in DOMAIN closures :
          BeforeSampling(k) => closures[k].awaiting = {} /\ closures[k].heard = {})
  /\ [][\A k \in DOMAIN closures \cap DOMAIN closures' :
          /\ BeforeSampling(k) /\ closures'[k].pc = "events" =>
               /\ closures'[k].awaiting = closures'[k].sampled
               /\ closures'[k].sampled # {}
               /\ closures'[k].heard = {}
          /\ closures[k].pc = "events" =>
               \A l \in closures[k].awaiting \ closures'[k].awaiting : dispatched' = l]_vars

\* the event of an element was dispatched before the first trigger's wait
\* sampled it, and the wait still awaits the element
C36_Witness ==
  /\ closures # <<>>
  /\ closures[1].pc = "events"
  /\ closures[1].heard = {}
  /\ dispatched \in closures[1].awaiting

(* --------------------------------------------------------------- claim C37 *)

\* recordedAt of snapshot i of the source (counted from 0)
RecordedAt(i) == capturedSnapshots[i + 1].recordedAt

\* the interval that the j-th call of assertTransitionTookDuration measured
Measured(j) ==
  RecordedAt(outcome.asserted[j].transitionEndIndex)
    - RecordedAt(outcome.asserted[j].transitionStartIndex)

RECURSIVE SumMeasured(_)
\* the sum of the first j measured intervals
SumMeasured(j) == IF j = 0 THEN 0 ELSE SumMeasured(j - 1) + Measured(j)

DomPolls ==
  {i \in DOMAIN rafPending : rafPending[i].cb = PollCallback(DomTracker)}
    \cup {Len(rafPending) + i : i \in {j \in DOMAIN frameBatch :
                                          frameBatch[j].cb = PollCallback(DomTracker)}}

\* the step runs the frame callback that polls the container
DomPollRuns ==
  /\ frameBatch # <<>>
  /\ Head(frameBatch).cb = PollCallback(DomTracker)
  /\ frameBatch' = Tail(frameBatch)

\* C38: the tracker evaluates getContent at most once per frame callback,
\* and a frame holds at most one of its callbacks, so there are never more
\* snapshots than one plus the frames that fired while it tracks; a snapshot
\* is what the container holds when a poll runs, and a step that changes the
\* container records nothing, so a state of the container that is
\* overwritten before the next poll produces no snapshot.
C38_OneSnapshotPerFrame ==
  /\ [](Len(capturedSnapshots) <= 1 + frameNo)
  /\ [](Cardinality(DomPolls) <= 1)
  /\ [][/\ Len(capturedSnapshots') <= Len(capturedSnapshots) + 1
        /\ capturedSnapshots # <<>> /\ capturedSnapshots' # capturedSnapshots =>
             /\ DomPollRuns
             /\ capturedSnapshots' =
                  Append(capturedSnapshots,
                         [content |-> FormatHTML(innerHTML), recordedAt |-> Now])
        /\ innerHTML' # innerHTML => capturedSnapshots' = capturedSnapshots]_vars

\* the trigger changed the container, the library changed it again, the
\* tracker has polled since, and there are just two snapshots
C38_Witness ==
  /\ Len(capturedSnapshots) = 2
  /\ execLog = <<1>>
  /\ transitonTriggers[1].execute = "act"
  /\ mutations = 1
  /\ trk[DomTracker].lastContentValue = innerHTML
  /\ frameNo >= 1

(* --------------------------------------------------------------- claim C39 *)

\* the step calls untrack() of t for the first time
Untracks(t) == trk[t].started /\ ~trk[t].stopTracking /\ trk'[t].stopTracking

\* the ids of the tasks that will call notifyIfContentChange of t
TasksOf(t) == {r.task : r \in PollsOf(t)}

\* C39: untrack() of one tracker cancels only that tracker's pending poll:
\* the closure and the pending poll of every other tracker are as before, so
\* an active one goes on polling, and every registry entry that is not a
\* poll of the untracked tracker stays, under the same id.
C39_UntrackIsLocal ==
  [][\A t \in Trackers :
       Untracks(t) =>
         /\ \A u \in Trackers \ {t} :
              /\ trk'[u] = trk[u]
              /\ trkLog'[u] = trkLog[u]
              /\ PollsOf(u)' = PollsOf(u)
              /\ Active(u) /\ OnePoll(u) => Active(u)' /\ OnePoll(u)'
         /\ \A id \in DOMAIN taskKillers \ TasksOf(t) :
              id \in DOMAIN taskKillers' /\ taskKillers'[id] = taskKillers[id]]_vars

\* a tracker was untracked after a poll, the other one is active and has
\* polled again since it was started, its poll pending
C39_Witness ==
  \E t \in Trackers : \E u \in Trackers \ {t} :
    /\ Untracked(t) /\ PollsOf(t) = {}
    /\ Len(trkLog[t].evals) = 2
    /\ Active(u) /\ OnePoll(u)
    /\ Len(trkLog[u].evals) = 3

====
